---- MODULE Spec2Model ----
(***************************************************************************)
(* The knowledge-base synchronization workflow of the financial insight    *)
(* agent: the DynamoDB bot table and its change stream, the EventBridge    *)
(* pipe that starts the Step Functions state machine, the state machine    *)
(* declared in infra/lib/constructs/embeddings.py and the Lambda handlers  *)
(* it invokes (update_bot_status, fetch_stack_output,                      *)
(* store_knowledge_base_id).                                               *)
(*                                                                         *)
(* Conventions.  A JSON object is a TLA+ record whose DOMAIN is the set of *)
(* keys that are present, so a missing key is a missing field.  A string   *)
(* that some code parses as JSON is [json |-> object]; any other free text *)
(* is [raw |-> "text"]; json_loads is partial.  Execution identifiers are  *)
(* token sequences, the empty string being << >>.  Status values and       *)
(* CloudFormation output keys are plain strings whose characters are given *)
(* by Chars, so that prefix tests are computed on the characters.          *)
(***************************************************************************)
EXTENDS Integers, Sequences, FiniteSets, TLC

VARIABLES table, stream, runs, nExt, polled, nStarted, upd, inv

vars == <<table, stream, runs, nExt, polled, nStarted, upd, inv>>

(***************************************************************************)
(* Bounds of the model.                                                    *)
(***************************************************************************)
MaxDS == 2
MaxExternalWrites == 1
\* the retries of a Lambda task after an error of the Lambda service: the
\* retrier's MaxAttempts is the default of the LambdaInvoke construct
\* the outputs of a bot's stack that the handlers' specifications enumerate
MaxOutputs == 3

\* the longest email the pre-signup check is given
MaxEmailLen == 4

MaxServiceRetries == 2

(***************************************************************************)
(* update_bot_status/index.py                                              *)
(***************************************************************************)
RETRIES_TO_UPDATE_SYNC_STATUS == 4

(***************************************************************************)
(* Strings.                                                                *)
(***************************************************************************)
Chars(s) ==
    CASE s = "QUEUED"           -> <<"Q","U","E","U","E","D">>
      [] s = "QUEUED_RETRY"     -> <<"Q","U","E","U","E","D","_","R","E","T","R","Y">>
      [] s = "QUEUE"            -> <<"Q","U","E","U","E">>
      [] s = "RUNNING"          -> <<"R","U","N","N","I","N","G">>
      [] s = "SUCCEEDED"        -> <<"S","U","C","C","E","E","D","E","D">>
      [] s = "FAILED"           -> <<"F","A","I","L","E","D">>
      [] s = "KnowledgeBaseId"  -> <<"K","n","o","w","l","e","d","g","e","B","a","s","e","I","d">>
      [] s = "DataSource"       -> <<"D","a","t","a","S","o","u","r","c","e">>
      [] s = "DataSource0"      -> <<"D","a","t","a","S","o","u","r","c","e","0">>
      [] s = "DataSource1"      -> <<"D","a","t","a","S","o","u","r","c","e","1">>
      [] s = "DataSource2"      -> <<"D","a","t","a","S","o","u","r","c","e","2">>
      [] s = "DataSource3"      -> <<"D","a","t","a","S","o","u","r","c","e","3">>
      [] s = "GuardrailArn"     -> <<"G","u","a","r","d","r","a","i","l","A","r","n">>
      [] s = "GuardrailVersion" -> <<"G","u","a","r","d","r","a","i","l","V","e","r","s","i","o","n">>
      [] OTHER                  -> << >>

StartsWith(s, p) ==
    LET cs == Chars(s)
        cp == Chars(p)
    IN  /\ Len(cp) <= Len(cs)
        /\ SubSeq(cs, 1, Len(cp)) = cp

EmptyId == << >>
Raw(text) == [raw |-> text]
Json(obj) == [json |-> obj]
EmptyStr == Raw("")

\* Python truthiness of a string
Truthy(s) == ~("raw" \in DOMAIN s /\ s.raw = "")

\* json.loads
json_loads(s) ==
    IF "json" \in DOMAIN s THEN [ok |-> TRUE, value |-> s.json]
                           ELSE [ok |-> FALSE, error |-> "JSONDecodeError"]

\* the JSON object with key f set to v (ResultPath "$.f")
SetPath(d, f, v) == [k \in DOMAIN d \cup {f} |-> IF k = f THEN v ELSE d[k]]

(***************************************************************************)
(* Keys of the bot table.  Identifiers are token sequences; "#" is the     *)
(* separator compose_bot_id writes and decompose_bot_id splits on.         *)
(***************************************************************************)
Users == {<<"u1">>}
BotIds == {<<"b1">>, <<"b2">>}

compose_bot_id(user_id, bot_id) == user_id \o <<"#", "BOT", "#">> \o bot_id

decompose_bot_id(composed_bot_id) ==
    LET hashes == {i \in 1..Len(composed_bot_id) : composed_bot_id[i] = "#"}
        last == IF hashes = {} THEN 0
                ELSE CHOOSE i \in hashes : \A j \in hashes : j <= i
    IN  SubSeq(composed_bot_id, last + 1, Len(composed_bot_id))

Keys == {[PK |-> u, SK |-> compose_bot_id(u, b)] : u \in Users, b \in BotIds}

(***************************************************************************)
(* The bot table (DynamoDB) and its NEW_IMAGE change stream.               *)
(***************************************************************************)
\* mutant: a stored terminal status is not overwritten
UpdateItem_KeepTerminal(tbl, key, sets) ==
    LET old == IF key \in DOMAIN tbl THEN tbl[key]
               ELSE [PK |-> key.PK, SK |-> key.SK]
        new == [a \in DOMAIN old \cup DOMAIN sets |->
                   IF a \in DOMAIN sets THEN sets[a] ELSE old[a]]
    IN  IF /\ "SyncStatus" \in DOMAIN old \cap DOMAIN sets
           /\ old.SyncStatus \in {"SUCCEEDED", "FAILED"}
        THEN tbl
        ELSE [k \in DOMAIN tbl \cup {key} |-> IF k = key THEN new ELSE tbl[k]]

\* mutant: LastExecId is appended to the stored value instead of set
UpdateItem_Append(tbl, key, sets) ==
    LET old == IF key \in DOMAIN tbl THEN tbl[key]
               ELSE [PK |-> key.PK, SK |-> key.SK]
        new == [a \in DOMAIN old \cup DOMAIN sets |->
                   IF a \notin DOMAIN sets THEN old[a]
                   ELSE IF a = "LastExecId" /\ a \in DOMAIN old
                        THEN old[a] \o sets[a]
                        ELSE sets[a]]
    IN  [k \in DOMAIN tbl \cup {key} |-> IF k = key THEN new ELSE tbl[k]]

\* UpdateItem with a SET expression and no condition: an upsert
UpdateItem(tbl, key, sets) ==
    LET old == IF key \in DOMAIN tbl THEN tbl[key]
               ELSE [PK |-> key.PK, SK |-> key.SK]
        new == [a \in DOMAIN old \cup DOMAIN sets |->
                   IF a \in DOMAIN sets THEN sets[a] ELSE old[a]]
    IN  [k \in DOMAIN tbl \cup {key} |-> IF k = key THEN new ELSE tbl[k]]

MapAttributes == {"Knowledge", "BedrockKnowledgeBase", "GuardrailsParams"}

\* the item in DynamoDB's typed attribute-value form
Image(item) ==
    [a \in DOMAIN item |->
        IF a \in MapAttributes THEN [M |-> item[a]] ELSE [S |-> item[a]]]

OldStatus(tbl, key) ==
    IF key \in DOMAIN tbl /\ "SyncStatus" \in DOMAIN tbl[key]
    THEN tbl[key].SyncStatus ELSE ""

\* stream=NEW_IMAGE: one change record per write that changes the item.
\* prev and by are not part of the record: they remember, for the
\* properties, the status the write replaced and who wrote.
ChangeRecord(tblOld, tblNew, key, by) ==
    [eventName |-> IF key \in DOMAIN tblOld THEN "MODIFY" ELSE "INSERT",
     dynamodb  |-> [NewImage |-> Image(tblNew[key])],
     prev      |-> OldStatus(tblOld, key),
     by        |-> by]

StreamAfter(str, tblOld, tblNew, key, by) ==
    IF key \in DOMAIN tblOld /\ tblOld[key] = tblNew[key]
    THEN str
    ELSE Append(str, ChangeRecord(tblOld, tblNew, key, by))

(***************************************************************************)
(* embeddings.py, _setup_event_pipe: the filter of the pipe.               *)
(***************************************************************************)
FilterPrefix == "QUEUED"

\* mutant: the filter compares for equality instead of the prefix
FilterMatches_Exact(ev) ==
    /\ "NewImage" \in DOMAIN ev.dynamodb
    /\ "SyncStatus" \in DOMAIN ev.dynamodb.NewImage
    /\ "S" \in DOMAIN ev.dynamodb.NewImage.SyncStatus
    /\ ev.dynamodb.NewImage.SyncStatus.S = FilterPrefix

FilterMatches(ev) ==
    /\ "NewImage" \in DOMAIN ev.dynamodb
    /\ "SyncStatus" \in DOMAIN ev.dynamodb.NewImage
    /\ "S" \in DOMAIN ev.dynamodb.NewImage.SyncStatus
    /\ StartsWith(ev.dynamodb.NewImage.SyncStatus.S, FilterPrefix)

(***************************************************************************)
(* update_bot_status/index.py                                              *)
(***************************************************************************)
Err(e) == [ok |-> FALSE, error |-> e]

\* mutant: the last entry of the name is taken instead of the first
FirstValue_Last(xs, name) ==
    LET hits == {i \in 1..Len(xs) : xs[i].Name = name}
    IN  IF hits = {} THEN [some |-> FALSE]
        ELSE [some |-> TRUE,
              v |-> xs[CHOOSE i \in hits : \A j \in hits : j <= i].Value]

\* next((item["Value"] for item in xs if item["Name"] == name), None)
FirstValue(xs, name) ==
    LET hits == {i \in 1..Len(xs) : xs[i].Name = name}
    IN  IF hits = {} THEN [some |-> FALSE]
        ELSE [some |-> TRUE,
              v |-> xs[CHOOSE i \in hits : \A j \in hits : i <= j].Value]

\* not x, for x a string or None
Falsy(opt) == ~opt.some \/ opt.v = << >>

\* mutant: Build.Arn is not read
extract_from_cause_NoArn(cause_str) ==
    LET loaded == json_loads(cause_str)
    IN  IF ~loaded.ok THEN Err(loaded.error)
        ELSE LET cause == loaded.value
             IN  IF \/ "Build" \notin DOMAIN cause
                    \/ "Environment" \notin DOMAIN cause.Build
                    \/ "EnvironmentVariables" \notin DOMAIN cause.Build.Environment
                 THEN Err("KeyError")
                 ELSE LET environment_variables ==
                              cause.Build.Environment.EnvironmentVariables
                          pk == FirstValue(environment_variables, "PK")
                          sk == FirstValue(environment_variables, "SK")
                      IN  IF Falsy(pk) \/ Falsy(sk) THEN Err("ValueError")
                          ELSE [ok |-> TRUE, pk |-> pk.v, sk |-> sk.v,
                                build_arn |-> EmptyId]

extract_from_cause(cause_str) ==
    LET loaded == json_loads(cause_str)
    IN  IF ~loaded.ok THEN Err(loaded.error)
        ELSE LET cause == loaded.value
             IN  IF \/ "Build" \notin DOMAIN cause
                    \/ "Environment" \notin DOMAIN cause.Build
                    \/ "EnvironmentVariables" \notin DOMAIN cause.Build.Environment
                 THEN Err("KeyError")
                 ELSE LET environment_variables ==
                              cause.Build.Environment.EnvironmentVariables
                          pk == FirstValue(environment_variables, "PK")
                          sk == FirstValue(environment_variables, "SK")
                      IN  IF Falsy(pk) \/ Falsy(sk) THEN Err("ValueError")
                          ELSE [ok |-> TRUE, pk |-> pk.v, sk |-> sk.v,
                                build_arn |-> IF "Arn" \in DOMAIN cause.Build
                                              THEN cause.Build.Arn ELSE EmptyId]

\* mutant: the sort key is the bot id, not the composed id
StatusUpdate_RawBotId(user_id, bot_id, sync_status, sync_status_reason, last_exec_id) ==
    [ok   |-> TRUE,
     key  |-> [PK |-> user_id, SK |-> bot_id],
     sets |-> [SyncStatus       |-> sync_status,
               SyncStatusReason |-> sync_status_reason,
               LastExecId       |-> last_exec_id]]

\* update_sync_status: the key and the SET expression of its update_item call
StatusUpdate(user_id, bot_id, sync_status, sync_status_reason, last_exec_id) ==
    [ok   |-> TRUE,
     key  |-> [PK |-> user_id, SK |-> compose_bot_id(user_id, bot_id)],
     sets |-> [SyncStatus       |-> sync_status,
               SyncStatusReason |-> sync_status_reason,
               LastExecId       |-> last_exec_id]]

\* mutant: the ingestion_job shape is tried before the cause shape
handler_JobFirst(event) ==
    LET hasACause == "cause" \in DOMAIN event /\ Truthy(event.cause)
        hasAJob  == /\ "ingestion_job" \in DOMAIN event
                    /\ DOMAIN event.ingestion_job # {}
        hasCause == hasACause /\ ~hasAJob
        hasJob   == hasAJob
    IN  IF hasCause THEN
            LET x == extract_from_cause(event.cause)
            IN  IF ~x.ok THEN x
                ELSE StatusUpdate(x.pk, decompose_bot_id(x.sk), "FAILED",
                                  event.cause, x.build_arn)
        ELSE IF hasJob THEN
            IF \/ "pk" \notin DOMAIN event
               \/ "sk" \notin DOMAIN event
               \/ "IngestionJob" \notin DOMAIN event.ingestion_job
               \/ "FailureReasons" \notin DOMAIN event.ingestion_job.IngestionJob
               \/ "IngestionJobId" \notin DOMAIN event.ingestion_job.IngestionJob
            THEN Err("KeyError")
            ELSE StatusUpdate(event.pk, decompose_bot_id(event.sk), "FAILED",
                     [str |-> event.ingestion_job.IngestionJob.FailureReasons],
                     event.ingestion_job.IngestionJob.IngestionJobId)
        ELSE
            IF \/ "pk" \notin DOMAIN event
               \/ "sk" \notin DOMAIN event
               \/ "sync_status" \notin DOMAIN event
            THEN Err("KeyError")
            ELSE StatusUpdate(event.pk, decompose_bot_id(event.sk),
                     event.sync_status,
                     IF "sync_status_reason" \in DOMAIN event
                     THEN event.sync_status_reason ELSE EmptyStr,
                     IF "last_exec_id" \in DOMAIN event
                     THEN event.last_exec_id ELSE EmptyId)

\* handler, up to its call of update_sync_status: the call it makes, or the
\* exception it raises before making one
handler(event) ==
    LET hasCause == "cause" \in DOMAIN event /\ Truthy(event.cause)
        hasJob   == /\ "ingestion_job" \in DOMAIN event
                    /\ DOMAIN event.ingestion_job # {}
    IN  IF hasCause THEN
            LET x == extract_from_cause(event.cause)
            IN  IF ~x.ok THEN x
                ELSE StatusUpdate(x.pk, decompose_bot_id(x.sk), "FAILED",
                                  event.cause, x.build_arn)
        ELSE IF hasJob THEN
            IF \/ "pk" \notin DOMAIN event
               \/ "sk" \notin DOMAIN event
               \/ "IngestionJob" \notin DOMAIN event.ingestion_job
               \/ "FailureReasons" \notin DOMAIN event.ingestion_job.IngestionJob
               \/ "IngestionJobId" \notin DOMAIN event.ingestion_job.IngestionJob
            THEN Err("KeyError")
            ELSE StatusUpdate(event.pk, decompose_bot_id(event.sk), "FAILED",
                     [str |-> event.ingestion_job.IngestionJob.FailureReasons],
                     event.ingestion_job.IngestionJob.IngestionJobId)
        ELSE
            IF \/ "pk" \notin DOMAIN event
               \/ "sk" \notin DOMAIN event
               \/ "sync_status" \notin DOMAIN event
            THEN Err("KeyError")
            ELSE StatusUpdate(event.pk, decompose_bot_id(event.sk),
                     event.sync_status,
                     IF "sync_status_reason" \in DOMAIN event
                     THEN event.sync_status_reason ELSE EmptyStr,
                     IF "last_exec_id" \in DOMAIN event
                     THEN event.last_exec_id ELSE EmptyId)

\* @retry(tries=RETRIES_TO_UPDATE_SYNC_STATUS): after a failed attempt,
\* attempts being the number made so far, another one follows
\* mutant: the bound is off by one
RetryAgain_OffByOne(attempts) == attempts <= RETRIES_TO_UPDATE_SYNC_STATUS

RetryAgain(attempts) == attempts < RETRIES_TO_UPDATE_SYNC_STATUS

\* handle_lambda_error (shared.lambda_config): the decorator of the three
\* handlers; what the handler raised is what the invocation raises
handle_lambda_error(result) == result

(***************************************************************************)
(* fetch_stack_output/index.py                                             *)
(***************************************************************************)
IsDataSourceOutput(o) == StartsWith(o.OutputKey, "DataSource")

\* next((o["OutputValue"] for o in outputs if o["OutputKey"] == key), None)
FirstOutput(outputs, key) ==
    LET hits == {i \in 1..Len(outputs) : outputs[i].OutputKey = key}
    IN  IF hits = {} THEN [some |-> FALSE]
        ELSE [some |-> TRUE,
              v |-> outputs[CHOOSE i \in hits : \A j \in hits : i <= j].OutputValue]

\* mutant: the data sources are listed last first
get_stack_outputs_Reversed(outputs) ==
    LET ds == SelectSeq(outputs, IsDataSourceOutput)
    IN  [knowledge_base_id |-> FirstOutput(outputs, "KnowledgeBaseId"),
         data_source_ids   |-> [i \in 1..Len(ds) |-> ds[Len(ds) + 1 - i].OutputValue],
         guardrail_arn     |-> FirstOutput(outputs, "GuardrailArn"),
         guardrail_version |-> FirstOutput(outputs, "GuardrailVersion")]

get_stack_outputs(outputs) ==
    LET ds == SelectSeq(outputs, IsDataSourceOutput)
    IN  [knowledge_base_id |-> FirstOutput(outputs, "KnowledgeBaseId"),
         data_source_ids   |-> [i \in 1..Len(ds) |-> ds[i].OutputValue],
         guardrail_arn     |-> FirstOutput(outputs, "GuardrailArn"),
         guardrail_version |-> FirstOutput(outputs, "GuardrailVersion")]

\* x or ""
OrEmpty(opt) == IF Falsy(opt) THEN EmptyId ELSE opt.v

\* handler, given what describe_stacks returned for the bot's stack
fetch_handler(event, stack_outputs) ==
    IF "pk" \notin DOMAIN event \/ "sk" \notin DOMAIN event THEN Err("KeyError")
    ELSE LET outputs == get_stack_outputs(stack_outputs)
         IN  IF Falsy(outputs.knowledge_base_id) \/ outputs.data_source_ids = << >>
             THEN Err("ValueError")
             ELSE [ok |-> TRUE,
                   value |-> [i \in 1..Len(outputs.data_source_ids) |->
                       [KnowledgeBaseId  |-> outputs.knowledge_base_id.v,
                        DataSourceId     |-> outputs.data_source_ids[i],
                        GuardrailArn     |-> OrEmpty(outputs.guardrail_arn),
                        GuardrailVersion |-> OrEmpty(outputs.guardrail_version),
                        PK               |-> event.pk,
                        SK               |-> event.sk]]]

(***************************************************************************)
(* store_knowledge_base_id/index.py                                        *)
(***************************************************************************)
\* update_knowledge_base_id (app.repositories.custom_bot): the write it makes
update_knowledge_base_id(user_id, bot_id, kb_id, data_source_ids) ==
    [ok   |-> TRUE,
     key  |-> [PK |-> user_id, SK |-> compose_bot_id(user_id, bot_id)],
     sets |-> [KnowledgeBaseId |-> kb_id, DataSourceIds |-> data_source_ids]]

\* mutant: the knowledge-base id of the last entry is stored
store_knowledge_base_handler_LastEntry(event) ==
    IF \/ "pk" \notin DOMAIN event
       \/ "sk" \notin DOMAIN event
       \/ "stack_output" \notin DOMAIN event
    THEN Err("KeyError")
    ELSE LET stack_output == event.stack_output
         IN  IF stack_output = << >> THEN Err("ValueError")
             ELSE update_knowledge_base_id(
                      event.pk, decompose_bot_id(event.sk),
                      stack_output[Len(stack_output)].KnowledgeBaseId,
                      [i \in 1..Len(stack_output) |-> stack_output[i].DataSourceId])

store_knowledge_base_handler(event) ==
    IF \/ "pk" \notin DOMAIN event
       \/ "sk" \notin DOMAIN event
       \/ "stack_output" \notin DOMAIN event
    THEN Err("KeyError")
    ELSE LET stack_output == event.stack_output
         IN  IF stack_output = << >> THEN Err("ValueError")
             ELSE update_knowledge_base_id(
                      event.pk, decompose_bot_id(event.sk),
                      stack_output[1].KnowledgeBaseId,
                      [i \in 1..Len(stack_output) |-> stack_output[i].DataSourceId])

\* embedding_statemachine.guardrails.store_guardrail_arn.handler: the second
\* persistence step, which records the guardrail arn and version
store_guardrail_handler(event) ==
    IF \/ "pk" \notin DOMAIN event
       \/ "sk" \notin DOMAIN event
       \/ "stack_output" \notin DOMAIN event
    THEN Err("KeyError")
    ELSE IF event.stack_output = << >> THEN Err("ValueError")
    ELSE [ok   |-> TRUE,
          key  |-> [PK |-> event.pk,
                    SK |-> compose_bot_id(event.pk, decompose_bot_id(event.sk))],
          sets |-> [GuardrailArn     |-> event.stack_output[1].GuardrailArn,
                    GuardrailVersion |-> event.stack_output[1].GuardrailVersion]]

(***************************************************************************)
(* auth/cognito_trigger/index.py: the custom resource that manages the     *)
(* Lambda triggers of the user pool.  A dict is a function from the keys   *)
(* it has.                                                                 *)
(***************************************************************************)
\* {**a, **b}
DictMerge(a, b) ==
    [k \in DOMAIN a \cup DOMAIN b |-> IF k \in DOMAIN b THEN b[k] ELSE a[k]]

\* {k: v for k, v in a.items() if k not in b.keys()}
DictWithout(a, b) == [k \in DOMAIN a \ DOMAIN b |-> a[k]]

EmptyDict == [k \in {} |-> k]

\* mutant: Update keeps the keys of the old Triggers
cognito_trigger_handler_KeepOld(event, lambda_config) ==
    LET request_type == event.RequestType
        triggers == event.ResourceProperties.Triggers
    IN  CASE request_type = "Create" -> DictMerge(lambda_config, triggers)
          [] request_type = "Update" -> DictMerge(lambda_config, triggers)
          [] request_type = "Delete" -> DictWithout(lambda_config, triggers)
          [] OTHER -> lambda_config

\* handler: the LambdaConfig it passes to update_user_pool, given the
\* LambdaConfig describe_user_pool returned
cognito_trigger_handler(event, lambda_config) ==
    LET request_type == event.RequestType
        triggers == event.ResourceProperties.Triggers
        old_triggers ==
            IF /\ "OldResourceProperties" \in DOMAIN event
               /\ "Triggers" \in DOMAIN event.OldResourceProperties
            THEN event.OldResourceProperties.Triggers ELSE EmptyDict
    IN  CASE request_type = "Create" -> DictMerge(lambda_config, triggers)
          [] request_type = "Update" ->
               DictMerge(DictWithout(lambda_config, old_triggers), triggers)
          [] request_type = "Delete" -> DictWithout(lambda_config, triggers)
          [] OTHER -> lambda_config

(***************************************************************************)
(* auth/add_user_to_groups/index.py                                        *)
(***************************************************************************)
\* mutant: every authentication adds the user to the groups
add_user_to_groups_handler_AnyAuth(event) ==
    LET trigger_source == event.triggerSource
        user_attributes == event.request.userAttributes
    IN  IF trigger_source = "PostConfirmation_ConfirmSignUp" THEN "add"
        ELSE IF trigger_source = "PostAuthentication_Authentication"
        THEN IF "cognito:user_status" \notin DOMAIN user_attributes
             THEN "KeyError"
             ELSE "add"
        ELSE "return"

\* handler, up to its call of add_user_to_groups: whether it makes the
\* call ("add"), returns the event without it, or raises
add_user_to_groups_handler(event) ==
    LET trigger_source == event.triggerSource
        user_attributes == event.request.userAttributes
    IN  IF trigger_source = "PostConfirmation_ConfirmSignUp" THEN "add"
        ELSE IF trigger_source = "PostAuthentication_Authentication"
        THEN IF "cognito:user_status" \notin DOMAIN user_attributes
             THEN "KeyError"
             ELSE IF user_attributes["cognito:user_status"] = "FORCE_CHANGE_PASSWORD"
                  THEN "add" ELSE "return"
        ELSE "return"

(***************************************************************************)
(* auth/check_email_domain/index.py.  An email is the sequence of its      *)
(* characters.                                                             *)
(***************************************************************************)
\* the positions of "@" in email
AtPositions(email) == {i \in 1..Len(email) : email[i] = "@"}

\* email.count("@")
CountAt(email) == Cardinality(AtPositions(email))

\* email.split("@")[1], for an email with an "@": what lies between the
\* first "@" and the next, or the end
SplitSecond(email) ==
    LET ps == AtPositions(email)
        first == CHOOSE i \in ps : \A j \in ps : i <= j
        rest == ps \ {first}
        stop == IF rest = {} THEN Len(email) + 1
                ELSE CHOOSE i \in rest : \A j \in rest : i <= j
    IN  SubSeq(email, first + 1, stop - 1)

\* mutant: the number of "@" is not checked
check_email_domain_NoCount(email, allowed) ==
    IF allowed = << >> THEN FALSE
    ELSE \E i \in 1..Len(allowed) : allowed[i] = SplitSecond(email)

check_email_domain(email, allowed) ==
    IF allowed = << >> THEN FALSE
    ELSE IF CountAt(email) # 1 THEN FALSE
    ELSE \E i \in 1..Len(allowed) : allowed[i] = SplitSecond(email)

\* handler: it returns the event or raises
check_email_domain_handler(event, allowed) ==
    LET user_attributes == event.request.userAttributes
    IN  IF "email" \notin DOMAIN user_attributes \/ user_attributes.email = << >>
        THEN Err("ValueError")
        ELSE LET email == user_attributes.email
             IN  IF AtPositions(email) = {} THEN Err("IndexError")
                 ELSE IF check_email_domain(email, allowed)
                      THEN [ok |-> TRUE, value |-> event]
                      ELSE Err("ValueError")

(***************************************************************************)
(* embeddings.py, _create_state_machine: the states and their wiring.      *)
(***************************************************************************)
Tok(n) == <<"1", "2", "3", "4", "5">>[n]

HasKeyPaths(d) ==
    /\ "dynamodb" \in DOMAIN d
    /\ "NewImage" \in DOMAIN d.dynamodb
    /\ "PK" \in DOMAIN d.dynamodb.NewImage
    /\ "SK" \in DOMAIN d.dynamodb.NewImage

\* ExtractFirstElement: the Pass state that keeps the first change record
extract_first_element(input) ==
    [dynamodb  |-> input[1].dynamodb,
     eventName |-> input[1].eventName]

\* _create_sync_status_task: the payload of a direct status update
create_sync_status_task(d, sync_status, sync_status_reason) ==
    IF ~HasKeyPaths(d) THEN Err("States.Runtime")
    ELSE [ok |-> TRUE,
          value |-> [pk                 |-> d.dynamodb.NewImage.PK.S,
                     sk                 |-> d.dynamodb.NewImage.SK.S,
                     sync_status        |-> sync_status,
                     sync_status_reason |-> sync_status_reason]]

update_sync_status_running(d) ==
    create_sync_status_task(d, "RUNNING", EmptyStr)

\* mutant: the final update repeats the RUNNING status
update_sync_status_succeeded_Running(d) ==
    create_sync_status_task(d, "RUNNING", Raw("Knowledge base sync succeeded"))

update_sync_status_succeeded(d) ==
    create_sync_status_task(d, "SUCCEEDED", Raw("Knowledge base sync succeeded"))

\* UpdateSyncStatusFailed: {"cause.$": "$.Cause"}
update_sync_status_failed(d) ==
    IF "Cause" \notin DOMAIN d THEN Err("States.Runtime")
    ELSE [ok |-> TRUE, value |-> [cause |-> d.Cause]]

\* mutant: the knowledge configuration is read from the table at build time
start_custom_bot_build_Reread(d) ==
    LET item == table[[PK |-> d.dynamodb.NewImage.PK.S,
                       SK |-> d.dynamodb.NewImage.SK.S]]
    IN  <<[Name |-> "PK",    Value |-> d.dynamodb.NewImage.PK.S],
          [Name |-> "SK",    Value |-> d.dynamodb.NewImage.SK.S],
          [Name |-> "DOCUMENT_BUCKET", Value |-> <<"bucket">>],
          [Name |-> "KNOWLEDGE", Value |-> Json(item.Knowledge)],
          [Name |-> "BEDROCK_KNOWLEDGE_BASE",
           Value |-> Json(d.dynamodb.NewImage.BedrockKnowledgeBase.M)],
          [Name |-> "BEDROCK_GUARDRAILS",
           Value |-> Json(d.dynamodb.NewImage.GuardrailsParams.M)],
          [Name |-> "USE_STANDBY_REPLICAS", Value |-> <<"False">>]>>

\* StartCustomBotBuild: environment_variables_override
start_custom_bot_build(d) ==
    <<[Name |-> "PK",    Value |-> d.dynamodb.NewImage.PK.S],
      [Name |-> "SK",    Value |-> d.dynamodb.NewImage.SK.S],
      [Name |-> "DOCUMENT_BUCKET", Value |-> <<"bucket">>],
      [Name |-> "KNOWLEDGE",
       Value |-> Json(d.dynamodb.NewImage.Knowledge.M)],
      [Name |-> "BEDROCK_KNOWLEDGE_BASE",
       Value |-> Json(d.dynamodb.NewImage.BedrockKnowledgeBase.M)],
      [Name |-> "BEDROCK_GUARDRAILS",
       Value |-> Json(d.dynamodb.NewImage.GuardrailsParams.M)],
      [Name |-> "USE_STANDBY_REPLICAS", Value |-> <<"False">>]>>

\* FetchStackOutput: {"pk.$", "sk.$"}
fetch_stack_output(d) ==
    IF ~HasKeyPaths(d) THEN Err("States.Runtime")
    ELSE [ok |-> TRUE,
          value |-> [pk |-> d.dynamodb.NewImage.PK.S,
                     sk |-> d.dynamodb.NewImage.SK.S]]

\* StoreKnowledgeBase and StoreGuardrail: {"pk.$", "sk.$", "stack_output.$"}
store_payload(d) ==
    IF \/ ~HasKeyPaths(d)
       \/ "StackOutput" \notin DOMAIN d
       \/ "Payload" \notin DOMAIN d.StackOutput
    THEN Err("States.Runtime")
    ELSE [ok |-> TRUE,
          value |-> [pk           |-> d.dynamodb.NewImage.PK.S,
                     sk           |-> d.dynamodb.NewImage.SK.S,
                     stack_output |-> d.StackOutput.Payload]]

\* CheckIngestionStatus: the Choice on $.IngestionJob.ingestionJob.status
\* mutant: every status but FAILED counts as finished
check_ingestion_status_NoWait(status) ==
    CASE status = "FAILED" -> "UpdateSyncStatusFailed"
      [] OTHER             -> "IngestionComplete"

\* mutant: a FAILED job counts as finished
check_ingestion_status_FailedIsDone(status) ==
    CASE status \in {"COMPLETE", "FAILED"} -> "IngestionComplete"
      [] OTHER                             -> "WaitForIngestion"

check_ingestion_status(status) ==
    CASE status = "COMPLETE" -> "IngestionComplete"
      [] status = "FAILED"   -> "UpdateSyncStatusFailed"
      [] OTHER               -> "WaitForIngestion"

\* definition, fallback and the iterator of map_ingestion: the .next() chain;
\* "End" where a state has no successor.  UpdateSyncStatusFailed is one
\* state object: its successor is the Fail state fallback gave it first.
\* mutant: the wait gives the job up and takes the failure edge
NextState_PollTimeout(s) ==
    CASE s = "ExtractFirstElement"     -> "UpdateSyncStatusRunning"
      [] s = "UpdateSyncStatusRunning" -> "StartCustomBotBuild"
      [] s = "StartCustomBotBuild"     -> "FetchStackOutput"
      [] s = "FetchStackOutput"        -> "StoreKnowledgeBase"
      [] s = "StoreKnowledgeBase"      -> "StoreGuardrail"
      [] s = "StoreGuardrail"          -> "MapIngestion"
      [] s = "MapIngestion"            -> "UpdateSyncStatusSuccess"
      [] s = "UpdateSyncStatusSuccess" -> "End"
      [] s = "UpdateSyncStatusFailed"  -> "Fail"
      [] s = "StartIngestion"          -> "GetIngestionStatus"
      [] s = "GetIngestionStatus"      -> "CheckIngestionStatus"
      [] s = "WaitForIngestion"        -> "UpdateSyncStatusFailed"
      [] OTHER                         -> "End"

\* mutant: the chain ends at the Map, without the final status update
NextState_NoSuccessUpdate(s) ==
    CASE s = "ExtractFirstElement"     -> "UpdateSyncStatusRunning"
      [] s = "UpdateSyncStatusRunning" -> "StartCustomBotBuild"
      [] s = "StartCustomBotBuild"     -> "FetchStackOutput"
      [] s = "FetchStackOutput"        -> "StoreKnowledgeBase"
      [] s = "StoreKnowledgeBase"      -> "StoreGuardrail"
      [] s = "StoreGuardrail"          -> "MapIngestion"
      [] s = "UpdateSyncStatusFailed"  -> "Fail"
      [] s = "StartIngestion"          -> "GetIngestionStatus"
      [] s = "GetIngestionStatus"      -> "CheckIngestionStatus"
      [] s = "WaitForIngestion"        -> "GetIngestionStatus"
      [] OTHER                         -> "End"

NextState(s) ==
    CASE s = "ExtractFirstElement"     -> "UpdateSyncStatusRunning"
      [] s = "UpdateSyncStatusRunning" -> "StartCustomBotBuild"
      [] s = "StartCustomBotBuild"     -> "FetchStackOutput"
      [] s = "FetchStackOutput"        -> "StoreKnowledgeBase"
      [] s = "StoreKnowledgeBase"      -> "StoreGuardrail"
      [] s = "StoreGuardrail"          -> "MapIngestion"
      [] s = "MapIngestion"            -> "UpdateSyncStatusSuccess"
      [] s = "UpdateSyncStatusSuccess" -> "End"
      [] s = "UpdateSyncStatusFailed"  -> "Fail"
      [] s = "StartIngestion"          -> "GetIngestionStatus"
      [] s = "GetIngestionStatus"      -> "CheckIngestionStatus"
      [] s = "WaitForIngestion"        -> "GetIngestionStatus"
      [] OTHER                         -> "End"

\* add_catch(fallback)
CatchStates ==
    {"StartCustomBotBuild", "FetchStackOutput", "StoreKnowledgeBase",
     "StoreGuardrail"}

\* mutant: the failure edge is attached to every state but its own target
HasCatch_EveryState(s) == s # "UpdateSyncStatusFailed"

HasCatch(s) == s \in CatchStates

Fallback == "UpdateSyncStatusFailed"

StatusStates ==
    {"UpdateSyncStatusRunning", "UpdateSyncStatusSuccess",
     "UpdateSyncStatusFailed"}

StatusTaskInput(s, d) ==
    CASE s = "UpdateSyncStatusRunning" -> update_sync_status_running(d)
      [] s = "UpdateSyncStatusSuccess" -> update_sync_status_succeeded(d)
      [] OTHER                         -> update_sync_status_failed(d)

(***************************************************************************)
(* What the services outside the repository hand back.                     *)
(***************************************************************************)
KbId == <<"kb1">>
DsId(n) == <<"ds", Tok(n)>>
DsKey(n) == <<"DataSource0", "DataSource1", "DataSource2", "DataSource3">>[n]
BuildArn(i) == <<"arn:build", Tok(i)>>
JobId(ds) == <<"job">> \o ds
FailureReasons(ds) == <<<<"failed">> \o ds>>

\* the Cause of a failed Lambda task: the serialized exception
LambdaCause(error) == Json([errorType |-> error, errorMessage |-> "message"])

\* the Cause of a failed build: the serialized Build
BuildCause(i, envs) ==
    Json([Build |-> [Arn         |-> BuildArn(i),
                     BuildStatus |-> "FAILED",
                     Environment |-> [EnvironmentVariables |-> envs]]])

\* the Outputs describe_stacks may return for a bot's stack
StackOutputs(kb, n, g) ==
    (IF kb THEN <<[OutputKey |-> "KnowledgeBaseId", OutputValue |-> KbId]>>
           ELSE << >>)
    \o [i \in 1..n |-> [OutputKey |-> DsKey(i), OutputValue |-> DsId(i)]]
    \o (IF g THEN <<[OutputKey |-> "GuardrailArn", OutputValue |-> <<"arn:guardrail">>],
                    [OutputKey |-> "GuardrailVersion", OutputValue |-> <<"1">>]>>
             ELSE << >>)

DescribeResponses ==
    {StackOutputs(kb, n, g) : kb \in BOOLEAN, n \in 0..MaxDS, g \in BOOLEAN}

BuildOutcomes == {"SUCCEEDED", "FAILED", "ERROR"}
JobStatuses == {"IN_PROGRESS", "COMPLETE", "FAILED"}

ExtStatuses == {"QUEUED", "QUEUED_RETRY", "QUEUE", "RUNNING", "SUCCEEDED"}

(***************************************************************************)
(* State.                                                                  *)
(*   table   the bot table: key -> item, for the keys that exist           *)
(*   stream  the change records the pipe has not polled yet                *)
(*   runs    the executions of the state machine, in start order           *)
(*   nExt    the number of writes made by the application                  *)
(*   polled  for the properties: what the pipe did with each change record *)
(*   nStarted  the number of executions the pipe has started               *)
(*   upd     the invocations of the status handler outside a run (see the  *)
(*           specification SpecUpdater); unused by the runs                *)
(*   inv     an invocation of one of the other handlers on its own (see    *)
(*           the specifications of the handlers); unused by the runs       *)
(* A run holds its current state (pc), the execution status and error, the *)
(* state data (data; iter and idx inside the Map iterator), the attempts   *)
(* of the running status update (tries), the retries of the running Lambda *)
(* task after errors of the Lambda service (svc) and, for the properties,  *)
(* the change record that started it, the status updates it made and their *)
(* positions among the status updates of all runs (wseq), the data         *)
(* sources it started ingestion for, the states it entered, the number of  *)
(* builds it started, the first state that failed, the position of the     *)
(* first data source whose job was seen FAILED (0: none) and the data      *)
(* sources whose job was seen COMPLETE.                                    *)
(***************************************************************************)
\* no invocation of the status handler outside a run
NoCall == [event |-> [pk |-> << >>], expect |-> [key |-> << >>],
           t0 |-> << >>, calls |-> << >>, tries |-> 0, failed |-> << >>,
           snap |-> << >>]

NoInv == [fn |-> "none"]

BotItem(k, s, kn) ==
    [PK |-> k.PK, SK |-> k.SK, SyncStatus |-> s, Knowledge |-> kn,
     BedrockKnowledgeBase |-> "kbcfg", GuardrailsParams |-> "grcfg"]

FirstKey == [PK |-> <<"u1">>, SK |-> compose_bot_id(<<"u1">>, <<"b1">>)]

Init ==
    /\ \E s \in {"QUEUED", "SUCCEEDED"} :
          table = [k \in {FirstKey} |-> BotItem(k, s, "k1")]
    /\ stream = << >>
    /\ runs = << >>
    /\ nExt = 0
    /\ polled = << >>
    /\ nStarted = 0
    /\ upd = NoCall
    /\ inv = NoInv

NewRun(ev) ==
    [pc       |-> "ExtractFirstElement",
     status   |-> "RUNNING",
     error    |-> "",
     data     |-> <<[eventName |-> ev.eventName, dynamodb |-> ev.dynamodb]>>,
     iter     |-> << >>,
     idx      |-> 0,
     tries    |-> 0,
     svc      |-> 0,
     trigger  |-> ev,
     writes   |-> << >>,
     wseq     |-> << >>,
     started  |-> << >>,
     visited  |-> {"ExtractFirstElement"},
     builds   |-> 0,
     buildEnv |-> << >>,
     failedAt |-> "",
     jobFailed |-> 0,
     completed |-> << >>]

\* the state data the current state sees
Cur(r) == IF r.idx > 0 THEN r.iter ELSE r.data

Enter(r, s) ==
    [r EXCEPT !.pc = s, !.visited = @ \cup {s}, !.tries = 0, !.svc = 0]

EndExecution(r, status, error) ==
    [r EXCEPT !.pc = "End", !.status = status, !.error = error]

\* the transition to state s; the execution succeeds where the chain ends
Goto(r, s) ==
    IF s = "End" THEN EndExecution(r, "SUCCEEDED", "") ELSE Enter(r, s)

Advance(r) == Goto(r, NextState(r.pc))

\* mutant: a retrier on every task, for every error
TaskFailed_RetryOnce(r, error, cause) ==
    LET f == [r EXCEPT !.failedAt = IF @ = "" THEN r.pc ELSE @]
    IN  IF r.svc = 0 THEN [r EXCEPT !.svc = 1]
        ELSE IF HasCatch(r.pc) /\ error # "States.Runtime"
        THEN [Enter(f, Fallback) EXCEPT
                 !.data = [Error |-> error, Cause |-> cause]]
        ELSE EndExecution(f, "FAILED", error)

\* a task failed: the catch of the state, or the end of the execution
TaskFailed(r, error, cause) ==
    LET f == [r EXCEPT !.failedAt = IF @ = "" THEN r.pc ELSE @]
    IN  IF HasCatch(r.pc) /\ error # "States.Runtime"
        THEN [Enter(f, Fallback) EXCEPT
                 !.data = [Error |-> error, Cause |-> cause]]
        ELSE EndExecution(f, "FAILED", error)

Running(i) == i \in 1..Len(runs) /\ runs[i].status = "RUNNING"

\* LambdaInvoke, retry_on_service_exceptions (default): the task is invoked
\* again after an error of the Lambda service, and fails when the retries
\* are used up.  The handler has not run in an invocation that fails so.
LambdaServiceError(r) ==
    IF r.svc < MaxServiceRetries THEN [r EXCEPT !.svc = @ + 1]
    ELSE TaskFailed(r, "Lambda.ServiceException", Raw("Lambda service error"))

\* the number of status updates stored so far, by all runs
StatusWriteCount ==
    Cardinality(UNION {{<<i, j>> : j \in 1..Len(runs[i].writes)} :
                          i \in 1..Len(runs)})

(***************************************************************************)
(* The application writes a bot record.                                    *)
(***************************************************************************)
\* The write sets the status and changes the knowledge configuration.
OtherKnowledge(kn) == IF kn = "k1" THEN "k2" ELSE "k1"

BotWrite(k, s) ==
    /\ nExt < MaxExternalWrites
    /\ LET kn == IF k \in DOMAIN table THEN OtherKnowledge(table[k].Knowledge)
                 ELSE "k1"
           new == UpdateItem(table, k, BotItem(k, s, kn))
       IN  /\ table' = new
           /\ stream' = StreamAfter(stream, table, new, k, "application")
    /\ nExt' = nExt + 1
    /\ UNCHANGED <<runs, polled, nStarted, upd, inv>>

(***************************************************************************)
(* The pipe polls one change record (batch_size=1) and starts an execution *)
(* for it when the filter matches.  An execution never reads the table, so *)
(* executions do not influence each other: Spec follows the first          *)
(* execution the pipe starts; an execution started for a later matching    *)
(* record is counted in nStarted and not followed.                         *)
(***************************************************************************)
\* mutant: the record is delivered twice
PipePoll_Redeliver ==
    /\ stream # << >>
    /\ LET ev == Head(stream)
           m == FilterMatches(ev)
       IN  /\ runs' = IF m /\ runs = << >> THEN <<NewRun(ev)>> ELSE runs
           /\ nStarted' = IF m THEN nStarted + 2 ELSE nStarted
           /\ polled' = Append(polled,
                 [status |-> ev.dynamodb.NewImage.SyncStatus.S,
                  prev |-> ev.prev, by |-> ev.by, started |-> m])
    /\ stream' = Tail(stream)
    /\ UNCHANGED <<table, nExt, upd, inv>>

PipePoll ==
    /\ stream # << >>
    /\ LET ev == Head(stream)
           m == FilterMatches(ev)
       IN  /\ runs' = IF m /\ runs = << >> THEN <<NewRun(ev)>> ELSE runs
           /\ nStarted' = IF m THEN nStarted + 1 ELSE nStarted
           /\ polled' = Append(polled,
                 [status |-> ev.dynamodb.NewImage.SyncStatus.S,
                  prev |-> ev.prev, by |-> ev.by, started |-> m])
    /\ stream' = Tail(stream)
    /\ UNCHANGED <<table, nExt, upd, inv>>

(***************************************************************************)
(* The states of the state machine.                                        *)
(***************************************************************************)
ExtractFirstElement(i) ==
    /\ Running(i) /\ runs[i].pc = "ExtractFirstElement"
    /\ runs' = [runs EXCEPT ![i] =
          [Advance(@) EXCEPT !.data = extract_first_element(runs[i].data)]]
    /\ UNCHANGED <<table, stream, nExt, polled, nStarted, upd, inv>>

\* UpdateSyncStatusRunning, UpdateSyncStatusSuccess, UpdateSyncStatusFailed:
\* the invocation of the status handler and one attempt of its store write
UpdateSyncStatus(i) ==
    /\ Running(i) /\ runs[i].pc \in StatusStates
    /\ LET r == runs[i]
           input == StatusTaskInput(r.pc, Cur(r))
           plan == IF input.ok THEN handle_lambda_error(handler(input.value))
                   ELSE input
           n == r.tries + 1
       IN  \/ IF ~plan.ok
              THEN /\ runs' = [runs EXCEPT ![i] =
                          TaskFailed(r, plan.error, LambdaCause(plan.error))]
                   /\ UNCHANGED <<table, stream>>
              ELSE \E stored \in BOOLEAN :
                   IF stored
                   THEN LET new == UpdateItem(table, plan.key, plan.sets)
                        IN  /\ table' = new
                            /\ stream' = StreamAfter(stream, table, new, plan.key, "run")
                            /\ runs' = [runs EXCEPT ![i] =
                                  [Advance(r) EXCEPT
                                      !.tries = n,
                                      !.writes = Append(@, [key |-> plan.key,
                                                            sets |-> plan.sets]),
                                      !.wseq = Append(@, StatusWriteCount + 1)]]
                   ELSE /\ runs' = [runs EXCEPT ![i] =
                              IF RetryAgain(n) THEN [r EXCEPT !.tries = n]
                              ELSE TaskFailed([r EXCEPT !.tries = n], "ClientError",
                                              LambdaCause("ClientError"))]
                        /\ UNCHANGED <<table, stream>>
           \/ /\ input.ok /\ r.tries = 0
              /\ runs' = [runs EXCEPT ![i] = LambdaServiceError(r)]
              /\ UNCHANGED <<table, stream>>
    /\ UNCHANGED <<nExt, polled, nStarted, upd, inv>>

StartCustomBotBuild(i) ==
    /\ Running(i) /\ runs[i].pc = "StartCustomBotBuild"
    /\ LET envs == start_custom_bot_build(runs[i].data)
           r == [runs[i] EXCEPT !.builds = @ + 1, !.buildEnv = envs]
       IN  \E outcome \in BuildOutcomes :
             runs' = [runs EXCEPT ![i] =
                CASE outcome = "SUCCEEDED" ->
                       [Advance(r) EXCEPT !.data =
                           SetPath(r.data, "Build", [Build |-> [Arn |-> BuildArn(i)]])]
                  [] outcome = "FAILED" ->
                       TaskFailed(r, "States.TaskFailed", BuildCause(i, envs))
                  [] OTHER ->
                       TaskFailed(r, "CodeBuild.CodeBuildException",
                                  Raw("StartBuild was rejected"))]
    /\ UNCHANGED <<table, stream, nExt, polled, nStarted, upd, inv>>

FetchStackOutput(i) ==
    /\ Running(i) /\ runs[i].pc = "FetchStackOutput"
    /\ LET r == runs[i]
           input == fetch_stack_output(r.data)
       IN  \/ \E described \in BOOLEAN, outputs \in DescribeResponses :
                LET res == IF ~input.ok THEN input
                           ELSE IF ~described THEN Err("ClientError")
                           ELSE handle_lambda_error(fetch_handler(input.value, outputs))
                IN  runs' = [runs EXCEPT ![i] =
                       IF res.ok
                       THEN [Advance(r) EXCEPT !.data =
                                SetPath(r.data, "StackOutput", [Payload |-> res.value])]
                       ELSE TaskFailed(r, res.error, LambdaCause(res.error))]
           \/ /\ input.ok
              /\ runs' = [runs EXCEPT ![i] = LambdaServiceError(r)]
    /\ UNCHANGED <<table, stream, nExt, polled, nStarted, upd, inv>>

\* StoreKnowledgeBase and StoreGuardrail
StoreStep(i, state, plan) ==
    /\ Running(i) /\ runs[i].pc = state
    /\ LET r == runs[i]
       IN  \/ IF ~plan.ok
              THEN /\ runs' = [runs EXCEPT ![i] =
                          TaskFailed(r, plan.error, LambdaCause(plan.error))]
                   /\ UNCHANGED <<table, stream>>
              ELSE \E stored \in BOOLEAN :
                   IF stored
                   THEN LET new == UpdateItem(table, plan.key, plan.sets)
                        IN  /\ table' = new
                            /\ stream' = StreamAfter(stream, table, new, plan.key, "run")
                            /\ runs' = [runs EXCEPT ![i] = Advance(r)]
                   ELSE /\ runs' = [runs EXCEPT ![i] =
                              TaskFailed(r, "ClientError", LambdaCause("ClientError"))]
                        /\ UNCHANGED <<table, stream>>
           \/ /\ store_payload(r.data).ok
              /\ runs' = [runs EXCEPT ![i] = LambdaServiceError(r)]
              /\ UNCHANGED <<table, stream>>
    /\ UNCHANGED <<nExt, polled, nStarted, upd, inv>>

StorePlan(r, h(_)) ==
    LET input == store_payload(r.data)
    IN  IF input.ok THEN handle_lambda_error(h(input.value)) ELSE input

StoreKnowledgeBase(i) ==
    /\ i \in 1..Len(runs)
    /\ StoreStep(i, "StoreKnowledgeBase",
                 StorePlan(runs[i], store_knowledge_base_handler))

StoreGuardrail(i) ==
    /\ i \in 1..Len(runs)
    /\ StoreStep(i, "StoreGuardrail",
                 StorePlan(runs[i], store_guardrail_handler))

\* mutant: the Map takes the items last first
NextItem_LastFirst(r) ==
    LET items == r.data.StackOutput.Payload
    IN  IF r.idx < Len(items)
        THEN [Enter(r, "StartIngestion") EXCEPT
                 !.idx = r.idx + 1, !.iter = items[Len(items) - r.idx]]
        ELSE Goto([r EXCEPT !.idx = 0, !.iter = << >>],
                  NextState("MapIngestion"))

\* the item the Map iterator works on next, or the end of the Map
NextItem(r) ==
    LET items == r.data.StackOutput.Payload
    IN  IF r.idx < Len(items)
        THEN [Enter(r, "StartIngestion") EXCEPT
                 !.idx = r.idx + 1, !.iter = items[r.idx + 1]]
        ELSE Goto([r EXCEPT !.idx = 0, !.iter = << >>],
                  NextState("MapIngestion"))

MapIngestion(i) ==
    /\ Running(i) /\ runs[i].pc = "MapIngestion"
    /\ runs' = [runs EXCEPT ![i] = NextItem(@)]
    /\ UNCHANGED <<table, stream, nExt, polled, nStarted, upd, inv>>

StartIngestion(i) ==
    /\ Running(i) /\ runs[i].pc = "StartIngestion"
    /\ LET r == runs[i]
           ds == r.iter.DataSourceId
       IN  \E accepted \in BOOLEAN :
             runs' = [runs EXCEPT ![i] =
                IF accepted
                THEN [Advance(r) EXCEPT
                        !.started = Append(@, ds),
                        !.iter = SetPath(r.iter, "IngestionJob",
                           [ingestionJob |->
                              [ingestionJobId  |-> JobId(ds),
                               dataSourceId    |-> ds,
                               knowledgeBaseId |-> r.iter.KnowledgeBaseId,
                               status          |-> "STARTING"]])]
                ELSE TaskFailed(r, "BedrockAgent.BedrockAgentException",
                                Raw("StartIngestionJob was rejected"))]
    /\ UNCHANGED <<table, stream, nExt, polled, nStarted, upd, inv>>

GetIngestionStatus(i) ==
    /\ Running(i) /\ runs[i].pc = "GetIngestionStatus"
    /\ LET r == runs[i]
           job == r.iter.IngestionJob.ingestionJob
       IN  \E answered \in BOOLEAN, st \in JobStatuses :
             runs' = [runs EXCEPT ![i] =
                IF answered
                THEN [Advance(r) EXCEPT
                        !.jobFailed = IF st = "FAILED" /\ @ = 0 THEN r.idx ELSE @,
                        !.completed = IF st = "COMPLETE"
                                      THEN Append(@, job.dataSourceId) ELSE @,
                        !.iter =
                        SetPath(r.iter, "IngestionJob",
                           [ingestionJob |->
                              [ingestionJobId  |-> job.ingestionJobId,
                               dataSourceId    |-> job.dataSourceId,
                               knowledgeBaseId |-> job.knowledgeBaseId,
                               status          |-> st,
                               failureReasons  |->
                                  IF st = "FAILED"
                                  THEN FailureReasons(job.dataSourceId)
                                  ELSE << >>]])]
                ELSE TaskFailed(r, "BedrockAgent.BedrockAgentException",
                                Raw("GetIngestionJob was rejected"))]
    /\ UNCHANGED <<table, stream, nExt, polled, nStarted, upd, inv>>

CheckIngestionStatus(i) ==
    /\ Running(i) /\ runs[i].pc = "CheckIngestionStatus"
    /\ runs' = [runs EXCEPT ![i] =
          Enter(@, check_ingestion_status(@.iter.IngestionJob.ingestionJob.status))]
    /\ UNCHANGED <<table, stream, nExt, polled, nStarted, upd, inv>>

WaitForIngestion(i) ==
    /\ Running(i) /\ runs[i].pc = "WaitForIngestion"
    /\ runs' = [runs EXCEPT ![i] = Advance(@)]
    /\ UNCHANGED <<table, stream, nExt, polled, nStarted, upd, inv>>

IngestionComplete(i) ==
    /\ Running(i) /\ runs[i].pc = "IngestionComplete"
    /\ runs' = [runs EXCEPT ![i] = NextItem(@)]
    /\ UNCHANGED <<table, stream, nExt, polled, nStarted, upd, inv>>

\* the Fail state
Fail(i) ==
    /\ Running(i) /\ runs[i].pc = "Fail"
    /\ runs' = [runs EXCEPT ![i] =
          EndExecution(@, "FAILED", "Knowledge base sync failed")]
    /\ UNCHANGED <<table, stream, nExt, polled, nStarted, upd, inv>>

Step(i) ==
    \/ ExtractFirstElement(i)
    \/ UpdateSyncStatus(i)
    \/ StartCustomBotBuild(i)
    \/ FetchStackOutput(i)
    \/ StoreKnowledgeBase(i)
    \/ StoreGuardrail(i)
    \/ MapIngestion(i)
    \/ StartIngestion(i)
    \/ GetIngestionStatus(i)
    \/ CheckIngestionStatus(i)
    \/ WaitForIngestion(i)
    \/ IngestionComplete(i)
    \/ Fail(i)

Next ==
    \/ \E k \in {FirstKey}, s \in ExtStatuses : BotWrite(k, s)
    \/ PipePoll
    \/ Step(1)

Spec == Init /\ [][Next]_vars

(***************************************************************************)
(* The status handler invoked twice with the same event on a table that    *)
(* holds the record of bot b1 or no record.  upd holds the event, what its *)
(* construction says it names (expect), the table before the first         *)
(* invocation (t0) and after it (snap), the outcome of each invocation     *)
(* (calls), the attempts of the store write made in the running invocation *)
(* (tries) and the attempts that failed in each invocation (failed).       *)
(***************************************************************************)
SecondKey == [PK |-> <<"u1">>, SK |-> compose_bot_id(<<"u1">>, <<"b2">>)]

\* the environment variables of a build: the PK and SK entries among others
EnvironmentVariables(pks, sks) ==
    [j \in 1..Len(pks) |-> [Name |-> "PK", Value |-> pks[j]]]
    \o <<[Name |-> "DOCUMENT_BUCKET", Value |-> <<"bucket">>]>>
    \o [j \in 1..Len(sks) |-> [Name |-> "SK", Value |-> sks[j]]]

\* the Cause of a failed build whose description has no Arn
BuildCauseNoArn(envs) ==
    Json([Build |-> [BuildStatus |-> "FAILED",
                     Environment |-> [EnvironmentVariables |-> envs]]])

PkEntries == {<< >>, <<EmptyId>>, <<FirstKey.PK>>, <<FirstKey.PK, <<"u2">>>>}
SkEntries == {<< >>, <<EmptyId>>, <<FirstKey.SK>>, <<SecondKey.SK, FirstKey.SK>>}

\* a failure-cause event and what it was built from: the values of its
\* first PK and SK entries (empty: no such entry), whether both are there
\* and not empty, and its Arn (empty: none)
CauseCall(pks, sks, arn) ==
    [event  |-> [cause |-> IF arn
                           THEN BuildCause(1, EnvironmentVariables(pks, sks))
                           ELSE BuildCauseNoArn(EnvironmentVariables(pks, sks))],
     expect |-> [kind  |-> "cause",
                 valid |-> /\ pks # << >> /\ pks[1] # EmptyId
                           /\ sks # << >> /\ sks[1] # EmptyId,
                 arn   |-> IF arn THEN BuildArn(1) ELSE EmptyId,
                 key   |-> [PK |-> IF pks = << >> THEN EmptyId ELSE pks[1],
                            SK |-> IF sks = << >> THEN EmptyId ELSE sks[1]]]]

\* a direct status event, with or without last_exec_id
DirectCall(key, status, exec) ==
    [event  |-> IF exec
                THEN [pk |-> key.PK, sk |-> key.SK, sync_status |-> status,
                      sync_status_reason |-> Raw("reason"),
                      last_exec_id |-> <<"exec", "1">>]
                ELSE [pk |-> key.PK, sk |-> key.SK, sync_status |-> status,
                      sync_status_reason |-> Raw("reason")],
     expect |-> [kind |-> "direct", key |-> key,
                 sets |-> [SyncStatus       |-> status,
                           SyncStatusReason |-> Raw("reason"),
                           LastExecId       |-> IF exec THEN <<"exec", "1">>
                                                ELSE EmptyId]]]

\* an ingestion-failure event
IngestionCall(key) ==
    [event  |-> [pk |-> key.PK, sk |-> key.SK,
                 ingestion_job |->
                    [IngestionJob |-> [FailureReasons |-> FailureReasons(DsId(1)),
                                       IngestionJobId |-> JobId(DsId(1))]]],
     expect |-> [kind |-> "ingestion", key |-> key,
                 sets |-> [SyncStatus       |-> "FAILED",
                           SyncStatusReason |-> [str |-> FailureReasons(DsId(1))],
                           LastExecId       |-> JobId(DsId(1))]]]

UpdaterCalls ==
    {CauseCall(pks, sks, arn) : pks \in PkEntries, sks \in SkEntries,
                                arn \in BOOLEAN}
    \cup {DirectCall(k, st, exec) : k \in {FirstKey, SecondKey},
                                    st \in {"RUNNING", "SUCCEEDED", "FAILED"},
                                    exec \in BOOLEAN}
    \cup {IngestionCall(k) : k \in {FirstKey, SecondKey}}

UpdaterTables ==
    {[k \in {} |-> k],
     [k \in {FirstKey} |->
         [BotItem(k, "QUEUED", "k1") EXCEPT !.SyncStatus = "RUNNING"]]}

InitUpdater ==
    /\ table \in UpdaterTables
    /\ \E c \in UpdaterCalls :
          upd = [event |-> c.event, expect |-> c.expect, t0 |-> table,
                 calls |-> << >>, tries |-> 0, failed |-> << >>, snap |-> << >>]
    /\ stream = << >>
    /\ runs = << >>
    /\ nExt = 0
    /\ polled = << >>
    /\ nStarted = 0
    /\ inv = NoInv

\* the invocation has ended with outcome o, leaving the table tbl
CallEnded(o, failed, tbl) ==
    [upd EXCEPT !.calls = Append(@, o), !.tries = 0,
                !.failed = Append(@, failed),
                !.snap = IF upd.calls = << >> THEN tbl ELSE @]

\* handler and one attempt of update_sync_status
UpdaterAttempt ==
    /\ Len(upd.calls) < 2
    /\ LET plan == handle_lambda_error(handler(upd.event))
           n == upd.tries + 1
       IN  IF ~plan.ok
           THEN /\ upd' = CallEnded(plan.error, 0, table)
                /\ UNCHANGED <<table, stream>>
           ELSE \E stored \in BOOLEAN :
                IF stored
                THEN LET new == UpdateItem(table, plan.key, plan.sets)
                     IN  /\ table' = new
                         /\ stream' = StreamAfter(stream, table, new, plan.key, "call")
                         /\ upd' = CallEnded("ok", upd.tries, new)
                ELSE /\ upd' = IF RetryAgain(n) THEN [upd EXCEPT !.tries = n]
                               ELSE CallEnded("ClientError", n, table)
                     /\ UNCHANGED <<table, stream>>
    /\ UNCHANGED <<runs, nExt, polled, nStarted, inv>>

NextUpdater == UpdaterAttempt

SpecUpdater == InitUpdater /\ [][NextUpdater]_vars

(***************************************************************************)
(* Two executions in flight at once, for two bots or for the same bot      *)
(* (queued again while its first execution runs): the pipe has started     *)
(* both and none has taken a step.  Their steps interleave freely.  The    *)
(* services answer as in Spec, except that the bot's stack has one data    *)
(* source and a guardrail and that the Lambda service does not fail.       *)
(***************************************************************************)
RaceTable == [k \in {FirstKey, SecondKey} |-> BotItem(k, "QUEUED", "k1")]

\* the change record of the write that queued the bot of key k
QueuedRecord(k, touched) ==
    IF touched THEN ChangeRecord(RaceTable, RaceTable, k, "application")
    ELSE ChangeRecord([j \in {} |-> j], RaceTable, k, "application")

InitRace ==
    /\ table = RaceTable
    /\ \E k \in {FirstKey, SecondKey} :
          /\ runs = <<NewRun(QueuedRecord(FirstKey, FALSE)),
                      NewRun(QueuedRecord(k, k = FirstKey))>>
          /\ polled = [i \in 1..2 |->
                         [status |-> "QUEUED", prev |-> runs[i].trigger.prev,
                          by |-> "application", started |-> TRUE]]
    /\ stream = << >>
    /\ nExt = 0
    /\ nStarted = 2
    /\ upd = NoCall
    /\ inv = NoInv

RaceEnv ==
    \A i \in 1..Len(runs) :
        /\ runs[i].svc = 0
        /\ runs[i].pc = "StoreKnowledgeBase" =>
              /\ Len(runs[i].data.StackOutput.Payload) = 1
              /\ runs[i].data.StackOutput.Payload[1].GuardrailArn # EmptyId

RaceStep(i) == Step(i) /\ RaceEnv'

NextRace == \E i \in 1..2 : RaceStep(i)

SpecRace == InitRace /\ [][NextRace]_vars

(***************************************************************************)
(* One execution, started by the pipe, taken to its end.  Step Functions   *)
(* runs the current state of an execution that has not ended, so steps of  *)
(* the execution are weakly fair; what the services answer is not: a job   *)
(* may be reported IN_PROGRESS at every poll.                              *)
(***************************************************************************)
InitLive ==
    /\ table = [k \in {FirstKey} |-> BotItem(k, "QUEUED", "k1")]
    /\ runs = <<NewRun(QueuedRecord(FirstKey, FALSE))>>
    /\ polled = <<[status |-> "QUEUED", prev |-> runs[1].trigger.prev,
                   by |-> "application", started |-> TRUE]>>
    /\ stream = << >>
    /\ nExt = 0
    /\ nStarted = 1
    /\ upd = NoCall
    /\ inv = NoInv

NextLive == Step(1)

SpecLive == InitLive /\ [][NextLive]_vars /\ WF_vars(Step(1))

(***************************************************************************)
(* The output fetcher invoked on its own: inv holds the event, the Outputs *)
(* describe_stacks returns for the bot's stack (each key at most once, in  *)
(* any order) and, once the handler has run, its result.                   *)
(***************************************************************************)
OutputKeys ==
    {"KnowledgeBaseId", "DataSource0", "DataSource1", "GuardrailArn",
     "GuardrailVersion", "BucketName"}

OutputValues == {<<"a">>, <<"b">>}

OutputLists ==
    UNION {{o \in [1..n -> [OutputKey : OutputKeys, OutputValue : OutputValues]] :
               \A i, j \in 1..n : o[i].OutputKey = o[j].OutputKey => i = j} :
           n \in 0..MaxOutputs}

InitFetch ==
    /\ table = [k \in {} |-> k]
    /\ stream = << >>
    /\ runs = << >>
    /\ nExt = 0
    /\ polled = << >>
    /\ nStarted = 0
    /\ upd = NoCall
    /\ \E k \in {FirstKey, SecondKey}, o \in OutputLists :
          inv = [fn |-> "fetch_stack_output", done |-> FALSE,
                 event |-> [pk |-> k.PK, sk |-> k.SK], outputs |-> o]

FetchInvoke ==
    /\ inv.fn = "fetch_stack_output" /\ ~inv.done
    /\ inv' = [fn |-> inv.fn, done |-> TRUE, event |-> inv.event,
               outputs |-> inv.outputs,
               result |-> handle_lambda_error(fetch_handler(inv.event, inv.outputs))]
    /\ UNCHANGED <<table, stream, runs, nExt, polled, nStarted, upd>>

NextFetch == FetchInvoke

SpecFetch == InitFetch /\ [][NextFetch]_vars

(***************************************************************************)
(* The knowledge-base persistence handler invoked twice with the same      *)
(* event on a table that holds the bot's record, with or without ids       *)
(* stored by an earlier run.  inv holds the event, the table before the    *)
(* first invocation (t0) and after it (snap), and the outcome of each      *)
(* invocation (calls).                                                     *)
(***************************************************************************)
StackOutputEntries(k) ==
    {[KnowledgeBaseId |-> kb, DataSourceId |-> ds, GuardrailArn |-> EmptyId,
      GuardrailVersion |-> EmptyId, PK |-> k.PK, SK |-> k.SK] :
        kb \in {KbId, <<"kb2">>}, ds \in {DsId(1), DsId(2)}}

StackOutputLists(k) ==
    UNION {[1..n -> StackOutputEntries(k)] : n \in 0..MaxOutputs}

StoreTables ==
    {[k \in {FirstKey} |->
         [BotItem(k, "QUEUED", "k1") EXCEPT !.SyncStatus = "RUNNING"]],
     [k \in {FirstKey} |->
         SetPath(SetPath([BotItem(k, "QUEUED", "k1") EXCEPT !.SyncStatus = "RUNNING"],
                         "KnowledgeBaseId", <<"kb0">>),
                 "DataSourceIds", <<DsId(2), DsId(1), DsId(2)>>)]}

InitStore ==
    /\ table \in StoreTables
    /\ stream = << >>
    /\ runs = << >>
    /\ nExt = 0
    /\ polled = << >>
    /\ nStarted = 0
    /\ upd = NoCall
    /\ \E so \in StackOutputLists(FirstKey) :
          inv = [fn |-> "store_knowledge_base_id",
                 event |-> [pk |-> FirstKey.PK, sk |-> FirstKey.SK,
                            stack_output |-> so],
                 t0 |-> table, calls |-> << >>, snap |-> << >>]

\* the invocation has ended with outcome o, leaving the table tbl
StoreEnded(o, tbl) ==
    [inv EXCEPT !.calls = Append(@, o),
                !.snap = IF inv.calls = << >> THEN tbl ELSE @]

StoreInvoke ==
    /\ inv.fn = "store_knowledge_base_id" /\ Len(inv.calls) < 2
    /\ LET plan == handle_lambda_error(store_knowledge_base_handler(inv.event))
       IN  IF ~plan.ok
           THEN /\ inv' = StoreEnded(plan.error, table)
                /\ UNCHANGED <<table, stream>>
           ELSE \E stored \in BOOLEAN :
                IF stored
                THEN LET new == UpdateItem(table, plan.key, plan.sets)
                     IN  /\ table' = new
                         /\ stream' = StreamAfter(stream, table, new, plan.key, "call")
                         /\ inv' = StoreEnded("ok", new)
                ELSE /\ inv' = StoreEnded("ClientError", table)
                     /\ UNCHANGED <<table, stream>>
    /\ UNCHANGED <<runs, nExt, polled, nStarted, upd>>

NextStore == StoreInvoke

SpecStore == InitStore /\ [][NextStore]_vars

(***************************************************************************)
(* The status handler invoked on events that carry any mix of the fields   *)
(* of its three payload shapes.  inv holds how the event was put together  *)
(* (d), the event and, once the handler has run, the update it makes or    *)
(* the exception it raises.  The build of the cause is for the bot b2, the *)
(* pk and sk of the event are those of the bot b1.                         *)
(***************************************************************************)
ShapeDescriptors ==
    [c  : {"none", "empty", "build", "text"},
     j  : {"none", "empty", "job", "camel"},
     k  : BOOLEAN,
     st : {"none", "RUNNING", "SUCCEEDED"},
     rs : BOOLEAN,
     ex : BOOLEAN]

ShapeFields(d) ==
    (IF d.c # "none" THEN {"cause"} ELSE {})
    \cup (IF d.j # "none" THEN {"ingestion_job"} ELSE {})
    \cup (IF d.k THEN {"pk", "sk"} ELSE {})
    \cup (IF d.st # "none" THEN {"sync_status"} ELSE {})
    \cup (IF d.rs THEN {"sync_status_reason"} ELSE {})
    \cup (IF d.ex THEN {"last_exec_id"} ELSE {})

ShapeEvent(d) ==
    [f \in ShapeFields(d) |->
        CASE f = "cause" ->
               (CASE d.c = "empty" -> EmptyStr
                  [] d.c = "build" ->
                       BuildCause(1, EnvironmentVariables(<<SecondKey.PK>>,
                                                          <<SecondKey.SK>>))
                  [] OTHER -> Raw("StartBuild was rejected"))
          [] f = "ingestion_job" ->
               (CASE d.j = "empty" -> [x \in {} |-> x]
                  [] d.j = "job" ->
                       [IngestionJob |-> [FailureReasons |-> FailureReasons(DsId(1)),
                                          IngestionJobId |-> JobId(DsId(1))]]
                  [] OTHER ->
                       [ingestionJob |-> [failureReasons |-> FailureReasons(DsId(1)),
                                          ingestionJobId |-> JobId(DsId(1))]])
          [] f = "pk" -> FirstKey.PK
          [] f = "sk" -> FirstKey.SK
          [] f = "sync_status" -> d.st
          [] f = "sync_status_reason" -> Raw("reason")
          [] OTHER -> <<"exec", "1">>]

InitShape ==
    /\ table = [k \in {} |-> k]
    /\ stream = << >>
    /\ runs = << >>
    /\ nExt = 0
    /\ polled = << >>
    /\ nStarted = 0
    /\ upd = NoCall
    /\ \E d \in ShapeDescriptors :
          /\ ShapeFields(d) # {}
          /\ inv = [fn |-> "update_bot_status", done |-> FALSE, d |-> d,
                    event |-> ShapeEvent(d)]

ShapeInvoke ==
    /\ inv.fn = "update_bot_status" /\ ~inv.done
    /\ inv' = [fn |-> inv.fn, done |-> TRUE, d |-> inv.d, event |-> inv.event,
               result |-> handle_lambda_error(handler(inv.event))]
    /\ UNCHANGED <<table, stream, runs, nExt, polled, nStarted, upd>>

NextShape == ShapeInvoke

SpecShape == InitShape /\ [][NextShape]_vars

(***************************************************************************)
(* The trigger custom resource through its life: CloudFormation sends      *)
(* Create, then Updates that carry the properties of the request before,   *)
(* then Delete with the properties in force.  inv holds the LambdaConfig   *)
(* of the user pool (config), the Triggers in force (props; phase tells    *)
(* whether the resource exists), the LambdaConfig before the Create        *)
(* (origin) and the last request with the LambdaConfig it found (last).    *)
(* A request whose describe or update call fails changes nothing.          *)
(***************************************************************************)
ManagedKeys == {"PostConfirmation", "PostAuthentication"}
FunctionArns == {"fnA", "fnB"}

\* the Triggers a request may carry: some of the managed keys
TriggerDicts ==
    UNION {[ks -> FunctionArns] : ks \in (SUBSET ManagedKeys) \ {{}}}

\* the LambdaConfig the pool may have before the resource is created
PoolConfigs ==
    UNION {[ks -> FunctionArns \cup {"fnC"}] :
              ks \in SUBSET (ManagedKeys \cup {"PreSignUp"})}

InitCognito ==
    /\ table = [k \in {} |-> k]
    /\ stream = << >>
    /\ runs = << >>
    /\ nExt = 0
    /\ polled = << >>
    /\ nStarted = 0
    /\ upd = NoCall
    /\ \E c \in PoolConfigs :
          inv = [fn |-> "cognito_trigger", config |-> c, phase |-> "absent",
                 props |-> EmptyDict, origin |-> c,
                 last |-> [type |-> "none", prev |-> "none", ok |-> TRUE,
                           triggers |-> EmptyDict, old |-> EmptyDict,
                           before |-> c]]

\* the handler has served event; called tells whether its calls succeeded
CognitoRequest(event, old, called, phase) ==
    LET new == cognito_trigger_handler(event, inv.config)
        triggers == event.ResourceProperties.Triggers
    IN  inv' = [fn |-> inv.fn,
                config |-> IF called THEN new ELSE inv.config,
                phase  |-> IF called THEN phase ELSE inv.phase,
                props  |-> IF ~called THEN inv.props
                           ELSE IF phase = "absent" THEN EmptyDict ELSE triggers,
                origin |-> IF called /\ event.RequestType = "Create"
                           THEN inv.config ELSE inv.origin,
                last   |-> [type |-> event.RequestType,
                            prev |-> IF inv.last.ok THEN inv.last.type
                                     ELSE inv.last.prev,
                            ok |-> called,
                            triggers |-> triggers, old |-> old,
                            before |-> inv.config]]

CfnCreate ==
    /\ inv.fn = "cognito_trigger" /\ inv.phase = "absent"
    /\ \E t \in TriggerDicts, called \in BOOLEAN :
          CognitoRequest([RequestType |-> "Create",
                          ResourceProperties |-> [Triggers |-> t]],
                         EmptyDict, called, "present")
    /\ UNCHANGED <<table, stream, runs, nExt, polled, nStarted, upd>>

CfnUpdate ==
    /\ inv.fn = "cognito_trigger" /\ inv.phase = "present"
    /\ \E t \in TriggerDicts, called \in BOOLEAN :
          CognitoRequest([RequestType |-> "Update",
                          ResourceProperties |-> [Triggers |-> t],
                          OldResourceProperties |-> [Triggers |-> inv.props]],
                         inv.props, called, "present")
    /\ UNCHANGED <<table, stream, runs, nExt, polled, nStarted, upd>>

CfnDelete ==
    /\ inv.fn = "cognito_trigger" /\ inv.phase = "present"
    /\ \E called \in BOOLEAN :
          CognitoRequest([RequestType |-> "Delete",
                          ResourceProperties |-> [Triggers |-> inv.props]],
                         EmptyDict, called, "absent")
    /\ UNCHANGED <<table, stream, runs, nExt, polled, nStarted, upd>>

NextCognito == CfnCreate \/ CfnUpdate \/ CfnDelete

SpecCognito == InitCognito /\ [][NextCognito]_vars

(***************************************************************************)
(* The group auto-join handler serving one Cognito trigger event.  inv     *)
(* holds the event, the configured groups, the handler's position (pc:     *)
(* "handler", "loop" inside add_user_to_groups, "returned", "raised"), the *)
(* index of the next group (pos), the groups for which                     *)
(* admin_add_user_to_group was called (called) and those the user was      *)
(* added to (added), and what the handler returned or raised.              *)
(***************************************************************************)
GroupLists ==
    {<< >>, <<"g1">>, <<"g1", "g2">>, <<"g2", "g1">>, <<"g1", "g2", "g3">>}

TriggerSources ==
    {"PostConfirmation_ConfirmSignUp", "PostConfirmation_ConfirmForgotPassword",
     "PostAuthentication_Authentication", "PreSignUp_SignUp"}

UserAttributes ==
    {[email |-> "a@example.com"],
     [k \in {"email", "cognito:user_status"} |->
         IF k = "email" THEN "a@example.com" ELSE "FORCE_CHANGE_PASSWORD"],
     [k \in {"email", "cognito:user_status"} |->
         IF k = "email" THEN "a@example.com" ELSE "CONFIRMED"]}

InitGroups ==
    /\ table = [k \in {} |-> k]
    /\ stream = << >>
    /\ runs = << >>
    /\ nExt = 0
    /\ polled = << >>
    /\ nStarted = 0
    /\ upd = NoCall
    /\ \E ts \in TriggerSources, ua \in UserAttributes, gs \in GroupLists,
          u \in {"alice", "bob"} :
          inv = [fn |-> "add_user_to_groups", pc |-> "handler",
                 event |-> [userName |-> u, triggerSource |-> ts,
                            request |-> [userAttributes |-> ua]],
                 groups |-> gs, pos |-> 1, called |-> << >>, added |-> << >>,
                 result |-> "none"]

\* handler, up to the loop
GroupsHandler ==
    /\ inv.fn = "add_user_to_groups" /\ inv.pc = "handler"
    /\ LET what == add_user_to_groups_handler(inv.event)
       IN  inv' = CASE what = "add" -> [inv EXCEPT !.pc = "loop"]
                    [] what = "return" ->
                         [inv EXCEPT !.pc = "returned", !.result = inv.event]
                    [] OTHER -> [inv EXCEPT !.pc = "raised", !.result = what]
    /\ UNCHANGED <<table, stream, runs, nExt, polled, nStarted, upd>>

\* one turn of the loop of add_user_to_groups
GroupsAdd ==
    /\ inv.fn = "add_user_to_groups" /\ inv.pc = "loop"
    /\ inv.pos <= Len(inv.groups)
    /\ \E ok \in BOOLEAN :
          inv' = IF ok
                 THEN [inv EXCEPT !.pos = @ + 1,
                                  !.called = Append(@, inv.groups[inv.pos]),
                                  !.added = Append(@, inv.groups[inv.pos])]
                 ELSE [inv EXCEPT !.pc = "raised", !.result = "ClientError",
                                  !.called = Append(@, inv.groups[inv.pos])]
    /\ UNCHANGED <<table, stream, runs, nExt, polled, nStarted, upd>>

\* the loop is through: the handler returns the event
GroupsReturn ==
    /\ inv.fn = "add_user_to_groups" /\ inv.pc = "loop"
    /\ inv.pos > Len(inv.groups)
    /\ inv' = [inv EXCEPT !.pc = "returned", !.result = inv.event]
    /\ UNCHANGED <<table, stream, runs, nExt, polled, nStarted, upd>>

NextGroups == GroupsHandler \/ GroupsAdd \/ GroupsReturn

SpecGroups == InitGroups /\ [][NextGroups]_vars

(***************************************************************************)
(* The pre-signup check serving one event.  inv holds the event, the       *)
(* configured allowlist and, once the handler has run, what it returned or *)
(* raised.                                                                 *)
(***************************************************************************)
EmailChars == {"u", "@", "x", "y"}

Emails == UNION {[1..n -> EmailChars] : n \in 0..MaxEmailLen}

AllowLists ==
    {<< >>, <<<<"x">>>>, <<<<"y">>, <<"x", "y">>>>, <<<<"x">>, <<"y">>, << >>>>}

SignUpAttributes ==
    {[name |-> "n"]} \cup {[name |-> "n", email |-> e] : e \in Emails}

InitEmail ==
    /\ table = [k \in {} |-> k]
    /\ stream = << >>
    /\ runs = << >>
    /\ nExt = 0
    /\ polled = << >>
    /\ nStarted = 0
    /\ upd = NoCall
    /\ \E ua \in SignUpAttributes, al \in AllowLists :
          inv = [fn |-> "check_email_domain", done |-> FALSE,
                 event |-> [triggerSource |-> "PreSignUp_SignUp",
                            request |-> [userAttributes |-> ua]],
                 allowed |-> al]

EmailInvoke ==
    /\ inv.fn = "check_email_domain" /\ ~inv.done
    /\ inv' = [fn |-> inv.fn, done |-> TRUE, event |-> inv.event,
               allowed |-> inv.allowed,
               result |-> check_email_domain_handler(inv.event, inv.allowed)]
    /\ UNCHANGED <<table, stream, runs, nExt, polled, nStarted, upd>>

NextEmail == EmailInvoke

SpecEmail == InitEmail /\ [][NextEmail]_vars

(***************************************************************************)
(* One execution in flight while the application goes on writing the bot's *)
(* record: the steps of the execution interleave with those writes and     *)
(* with the pipe, which polls the change records of both.                  *)
(***************************************************************************)
\* the application's writes while the execution runs: it queues the bot
\* again, or leaves the status the execution set
InFlightStatuses == {"QUEUED", "RUNNING"}

NextInFlight ==
    \/ \E s \in InFlightStatuses : BotWrite(FirstKey, s)
    \/ PipePoll
    \/ Step(1)

SpecInFlight == InitLive /\ [][NextInFlight]_vars

(***************************************************************************)
(* Properties.                                                             *)
(***************************************************************************)
RunSet == {runs[i] : i \in 1..Len(runs)}

Ended(r) == r.status # "RUNNING"

\* the sync_status values r wrote, in order
StatusSeq(r) == [j \in 1..Len(r.writes) |-> r.writes[j].sets.SyncStatus]

\* the key of the record whose change started r
TriggerKey(r) ==
    [PK |-> r.trigger.dynamodb.NewImage.PK.S,
     SK |-> r.trigger.dynamodb.NewImage.SK.S]

WroteFailed(r) ==
    \E j \in 1..Len(r.writes) :
        /\ r.writes[j].key = TriggerKey(r)
        /\ r.writes[j].sets.SyncStatus = "FAILED"

\* the build of r ran and failed
BuildFailed(r) ==
    /\ r.failedAt = "StartCustomBotBuild"
    /\ "Error" \in DOMAIN r.data
    /\ r.data.Error = "States.TaskFailed"

AfterBuildStates ==
    {"FetchStackOutput", "StoreKnowledgeBase", "StoreGuardrail", "MapIngestion",
     "StartIngestion", "GetIngestionStatus", "CheckIngestionStatus",
     "WaitForIngestion", "IngestionComplete", "UpdateSyncStatusSuccess"}

\* C1: whichever step of a run fails, a status write of FAILED for the
\* triggering record has happened when the run has terminated.
C1_FailureIsRecorded ==
    \A r \in RunSet : Ended(r) /\ r.failedAt # "" => WroteFailed(r)

\* C2: the sync_status values one run writes are RUNNING first, then at
\* most one of SUCCEEDED or FAILED: nothing follows SUCCEEDED or FAILED and
\* the two are never both written.
C2_StatusMonotonic ==
    \A r \in RunSet :
        StatusSeq(r) \in {<< >>, <<"RUNNING">>, <<"RUNNING", "SUCCEEDED">>,
                          <<"RUNNING", "FAILED">>}

C2_Witness ==
    \E r \in RunSet : Ended(r) /\ StatusSeq(r) = <<"RUNNING", "FAILED">>

\* the successful course of r: the build succeeded, the outputs held a
\* knowledge-base id and at least one data source, both persistence steps
\* succeeded and the job of every data source was seen COMPLETE
HappyCourse(r) ==
    /\ "MapIngestion" \in r.visited
    /\ r.idx = 0
    /\ "Build" \in DOMAIN r.data
    /\ "StackOutput" \in DOMAIN r.data
    /\ Len(r.data.StackOutput.Payload) >= 1
    /\ r.completed = [j \in 1..Len(r.data.StackOutput.Payload) |->
                         r.data.StackOutput.Payload[j].DataSourceId]

EndedInSuccess(r) ==
    /\ r.status = "SUCCEEDED"
    /\ StatusSeq(r) = <<"RUNNING", "SUCCEEDED">>

\* C3 as stated: after the successful course the run has written RUNNING,
\* then SUCCEEDED as its last status write, and has ended in success.
C3_HappyCourseSucceeds ==
    \A r \in RunSet : Ended(r) /\ HappyCourse(r) => EndedInSuccess(r)

\* the status update r was making failed for good: the store refused the
\* write on all attempts, or the Lambda service failed on all invocations
UpdateGaveUp(r) ==
    \/ r.error = "ClientError" /\ r.tries = RETRIES_TO_UPDATE_SYNC_STATUS
    \/ r.error = "Lambda.ServiceException" /\ r.svc = MaxServiceRetries

\* C3 as amended: after the successful course, and unless the final status
\* update fails for good, the run has written RUNNING, then SUCCEEDED as its
\* last status write, and has ended in success; the run is never stopped in
\* between.  When the final update fails, RUNNING stays the only write.
C3_HappyCourseSucceedsIfStored ==
    \A r \in RunSet :
        HappyCourse(r) =>
            /\ r.pc \in {"UpdateSyncStatusSuccess", "End"}
            /\ Ended(r) /\ r.failedAt # "UpdateSyncStatusSuccess"
                  => EndedInSuccess(r)
            /\ Ended(r) /\ r.failedAt = "UpdateSyncStatusSuccess"
                  => /\ UpdateGaveUp(r)
                     /\ r.status = "FAILED"
                     /\ StatusSeq(r) = <<"RUNNING">>

C3_Witness ==
    \E r \in RunSet :
        /\ HappyCourse(r) /\ EndedInSuccess(r)
        /\ Len(r.data.StackOutput.Payload) = 2
        /\ r.started = r.completed

\* C4: when the fetched outputs lack the knowledge-base id or hold no data
\* source, the fetch step fails with the missing-output error and FAILED is
\* recorded on the record with that error as the reason.
C4_MissingOutputRecorded ==
    \A r \in RunSet :
        /\ Ended(r)
        /\ r.failedAt = "FetchStackOutput"
        /\ "Error" \in DOMAIN r.data
        /\ r.data.Error = "ValueError"
        => \E j \in 1..Len(r.writes) :
              /\ r.writes[j].key = TriggerKey(r)
              /\ r.writes[j].sets.SyncStatus = "FAILED"
              /\ r.writes[j].sets.SyncStatusReason = r.data.Cause

\* C5: once the job of data source k has been seen FAILED, no job is started
\* for a later data source and the run never writes SUCCEEDED.
C5_FailedJobStopsFanOut ==
    \A r \in RunSet :
        r.jobFailed > 0 =>
            /\ Len(r.started) = r.jobFailed
            /\ \A j \in 1..Len(r.writes) : r.writes[j].sets.SyncStatus # "SUCCEEDED"
            /\ r.status # "SUCCEEDED"

C5_Witness ==
    \E r \in RunSet :
        /\ Ended(r)
        /\ r.jobFailed = 1
        /\ r.started = <<DsId(1)>>
        /\ Len(r.data.StackOutput.Payload) = 2

\* C6: when a job has been seen FAILED, the run writes FAILED with the job's
\* failure reasons as reason and the job's id as last_exec_id.
C6_IngestionFailureRecorded ==
    \A r \in RunSet :
        Ended(r) /\ r.jobFailed > 0 =>
            \E j \in 1..Len(r.writes) :
                /\ r.writes[j].key = TriggerKey(r)
                /\ r.writes[j].sets.SyncStatus = "FAILED"
                /\ r.writes[j].sets.SyncStatusReason =
                      [str |-> r.iter.IngestionJob.ingestionJob.failureReasons]
                /\ r.writes[j].sets.LastExecId =
                      r.iter.IngestionJob.ingestionJob.ingestionJobId

\* what C7 says of a run whose build failed: FAILED written to the record
\* the cause names, with the cause as reason and Build.Arn as last_exec_id
BuildFailureWrite(r) ==
    [key  |-> TriggerKey(r),
     sets |-> [SyncStatus       |-> "FAILED",
               SyncStatusReason |-> r.data.Cause,
               LastExecId       |-> r.data.Cause.json.Build.Arn]]

BuildOnceAndNothingAfter(r) ==
    /\ r.builds = 1
    /\ r.visited \cap AfterBuildStates = {}
    /\ r.started = << >>

\* C7 as stated: a run whose build failed has, when it has ended, written
\* that FAILED update and ended in the Fail state, having started the build
\* once and run no fetch, persistence or ingestion step.
C7_BuildFailureRecorded ==
    \A r \in RunSet :
        Ended(r) /\ BuildFailed(r) =>
            /\ r.writes = <<r.writes[1], BuildFailureWrite(r)>>
            /\ r.error = "Knowledge base sync failed"
            /\ BuildOnceAndNothingAfter(r)

UpdateErrors == {"ClientError", "Lambda.ServiceException"}

\* C7 as amended: the same, unless the FAILED status update fails for good;
\* then nothing is written after RUNNING and the run ends with the update's
\* error instead of the Fail state.
C7_BuildFailureRecordedIfStored ==
    \A r \in RunSet :
        BuildFailed(r) =>
            /\ BuildOnceAndNothingAfter(r)
            /\ r.pc \in {"UpdateSyncStatusFailed", "Fail", "End"}
            /\ r.pc \in {"Fail", "End"} /\ r.error \notin UpdateErrors =>
                  /\ r.writes = <<r.writes[1], BuildFailureWrite(r)>>
                  /\ Ended(r) => r.error = "Knowledge base sync failed"
            /\ Ended(r) /\ r.error \in UpdateErrors =>
                  /\ StatusSeq(r) = <<"RUNNING">>
                  /\ UpdateGaveUp(r)

C7_Witness ==
    \E r \in RunSet :
        /\ Ended(r) /\ BuildFailed(r)
        /\ r.error = "Knowledge base sync failed"
        /\ r.writes[2] = BuildFailureWrite(r)
        /\ table[TriggerKey(r)].SyncStatus = "FAILED"
        /\ table[TriggerKey(r)].LastExecId = BuildArn(1)

\* C8: the pipe starts an execution for a change record exactly when the
\* new image's SyncStatus is QUEUED or QUEUED_RETRY, the values that begin
\* with QUEUED; QUEUE, RUNNING, SUCCEEDED and FAILED start none.
C8_OnlyQueuedStarts ==
    /\ \A j \in 1..Len(polled) :
          polled[j].started <=> polled[j].status \in {"QUEUED", "QUEUED_RETRY"}
    /\ \A r \in RunSet :
          r.trigger.dynamodb.NewImage.SyncStatus.S \in {"QUEUED", "QUEUED_RETRY"}

C8_Witness ==
    \E j \in 1..Len(polled) :
        /\ polled[j].status = "QUEUED_RETRY" /\ polled[j].started
        /\ \E r \in RunSet : r.trigger.dynamodb.NewImage.SyncStatus.S = "QUEUED_RETRY"

C10_AtMostFourAttempts ==
    [][\A i \in 1..Len(runs) :
          (i <= Len(runs') /\ runs'[i].tries = runs[i].tries + 1) =>
             /\ runs[i].tries < 4
             /\ runs[i].pc \in StatusStates
             /\ Len(runs'[i].writes) > Len(runs[i].writes) =>
                   /\ runs'[i].failedAt = runs[i].failedAt
                   /\ runs'[i].pc = NextState(runs[i].pc)
             /\ Len(runs'[i].writes) = Len(runs[i].writes) /\ runs'[i].tries < 4 =>
                   /\ runs'[i].pc = runs[i].pc
                   /\ runs'[i].status = "RUNNING"
             /\ Len(runs'[i].writes) = Len(runs[i].writes) /\ runs'[i].tries = 4 =>
                   /\ runs'[i].status = "FAILED"
                   /\ runs'[i].error = "ClientError"
                   /\ table' = table]_vars

C10_Witness ==
    \E r \in RunSet :
        /\ r.tries = 4
        /\ r.pc = "StartCustomBotBuild"
        /\ StatusSeq(r) = <<"RUNNING">>
        /\ table[TriggerKey(r)].SyncStatus = "RUNNING"

\* C11: after two invocations of the status handler with the same event
\* that both stored their write, the table is what it was after the first
\* one, whatever attempts the first one needed, and the record's three
\* status fields are the values of the event.
C11_UpdateIsIdempotent ==
    upd.calls = <<"ok", "ok">> =>
        /\ table = upd.snap
        /\ upd.expect.kind # "cause" =>
              /\ upd.expect.key \in DOMAIN table
              /\ \A a \in DOMAIN upd.expect.sets :
                    table[upd.expect.key][a] = upd.expect.sets[a]
              /\ \A a \in DOMAIN table[upd.expect.key] \ DOMAIN upd.expect.sets :
                    IF upd.expect.key \in DOMAIN upd.t0
                    THEN table[upd.expect.key][a] = upd.t0[upd.expect.key][a]
                    ELSE table[upd.expect.key][a] = upd.expect.key[a]

C11_Witness ==
    /\ upd.calls = <<"ok", "ok">>
    /\ upd.failed[1] > 0
    /\ upd.expect.kind = "direct"
    /\ upd.expect.sets.LastExecId # EmptyId
    /\ upd.expect.key \in DOMAIN upd.t0
    /\ upd.t0[upd.expect.key].SyncStatus # table[upd.expect.key].SyncStatus

\* C12: an invocation of the status handler for a key the table has no
\* record of ends with an error and leaves the table without that record.
C12_NoRecordNoWrite ==
    /\ upd.calls # << >>
    /\ upd.expect.kind # "cause"
    /\ upd.expect.key \notin DOMAIN upd.t0
    => /\ upd.calls[1] # "ok"
       /\ upd.expect.key \notin DOMAIN table

\* C13: for a failed build's cause, extract_from_cause returns the values
\* of the first PK and SK entries and Build.Arn (empty when absent), and
\* the FAILED write that follows names them; when the PK or SK entry is
\* missing or empty it raises ValueError and the table is left as it was.
C13_ExtractFromCause ==
    upd.expect.kind = "cause" =>
        LET x == extract_from_cause(upd.event.cause)
        IN  IF upd.expect.valid
            THEN /\ x = [ok |-> TRUE, pk |-> upd.expect.key.PK,
                         sk |-> upd.expect.key.SK, build_arn |-> upd.expect.arn]
                 /\ \A c \in 1..Len(upd.calls) : upd.calls[c] = "ok" =>
                       /\ DOMAIN table = DOMAIN upd.t0 \cup {upd.expect.key}
                       /\ table[upd.expect.key].SyncStatus = "FAILED"
                       /\ table[upd.expect.key].SyncStatusReason = upd.event.cause
                       /\ table[upd.expect.key].LastExecId = upd.expect.arn
            ELSE /\ x = Err("ValueError")
                 /\ table = upd.t0
                 /\ \A c \in 1..Len(upd.calls) : upd.calls[c] = "ValueError"

C13_Witness ==
    /\ upd.expect.kind = "cause"
    /\ upd.expect.valid
    /\ upd.expect.key = FirstKey
    /\ upd.expect.arn = BuildArn(1)
    /\ Len(upd.event.cause.json.Build.Environment.EnvironmentVariables) = 4
    /\ upd.calls # << >> /\ upd.calls[1] = "ok"
    /\ table[FirstKey].LastExecId = BuildArn(1)

\* C14: the data sources a run has started a job for are, in order, the
\* first ones of the fetched list, and all of them but the last have been
\* seen COMPLETE: the job of data source i+1 is started only after the job
\* of data source i has reached COMPLETE.
C14_OneJobInFlight ==
    \A r \in RunSet :
        r.started # << >> =>
            /\ Len(r.completed) \in {Len(r.started) - 1, Len(r.started)}
            /\ r.completed = SubSeq(r.started, 1, Len(r.completed))
            /\ r.idx > 0 =>
                  /\ Len(r.started) \in {r.idx - 1, r.idx}
                  /\ Len(r.started) <= Len(r.data.StackOutput.Payload)
                  /\ \A j \in 1..Len(r.started) :
                        r.started[j] = r.data.StackOutput.Payload[j].DataSourceId

C14_Witness ==
    \E r \in RunSet :
        /\ r.pc = "WaitForIngestion"
        /\ r.started = <<DsId(1), DsId(2)>>
        /\ r.completed = <<DsId(1)>>

PersistStates == {"StoreKnowledgeBase", "StoreGuardrail"}

\* C15: a run's steps happen in the order RUNNING written, build, fetch,
\* persist knowledge base, persist guardrail, ingestion; no job is started
\* unless both persistence steps succeeded; and a run in which a
\* persistence step failed has, when it has ended, written FAILED for the
\* record with that step's error as the reason.
C15_PersistBeforeIngestion ==
    \A r \in RunSet :
        /\ r.builds > 0 => StatusSeq(r) # << >> /\ StatusSeq(r)[1] = "RUNNING"
        /\ "FetchStackOutput" \in r.visited => r.builds = 1
        /\ "StoreKnowledgeBase" \in r.visited => "FetchStackOutput" \in r.visited
        /\ "StoreGuardrail" \in r.visited => "StoreKnowledgeBase" \in r.visited
        /\ r.started # << >> =>
              /\ PersistStates \subseteq r.visited
              /\ "MapIngestion" \in r.visited
        /\ Ended(r) /\ r.failedAt \in PersistStates =>
              \E j \in 1..Len(r.writes) :
                  /\ r.writes[j].key = TriggerKey(r)
                  /\ r.writes[j].sets.SyncStatus = "FAILED"
                  /\ r.writes[j].sets.SyncStatusReason = r.data.Cause

\* the states that invoke a Lambda function
LambdaStates == StatusStates \cup {"FetchStackOutput"} \cup PersistStates

\* C16 as stated: no step but the store write of the status update is ever
\* repeated: the output fetch and the persistence steps are invoked once.
C16_NothingElseRetried ==
    \A r \in RunSet :
        r.pc \in {"FetchStackOutput"} \cup PersistStates => r.svc = 0

\* C16 as amended: a step is made again only as an attempt of the status
\* update's store write (C10) or as the invocation of a Lambda step after an
\* error of the Lambda service, within the retries declared; the build
\* start, the ingestion start and each poll are made once; and once a step
\* has failed the run only takes the failure edge or ends.
C16_OnlyLambdaServiceRetried ==
    [][\A i \in 1..Len(runs) :
          i <= Len(runs') /\ runs'[i] # runs[i] =>
             /\ runs'[i].svc > runs[i].svc =>
                   /\ runs[i].pc \in LambdaStates
                   /\ runs[i].svc < MaxServiceRetries
                   /\ runs'[i] = [runs[i] EXCEPT !.svc = @ + 1]
             /\ runs'[i].pc = runs[i].pc =>
                   \/ runs'[i] = [runs[i] EXCEPT !.svc = @ + 1]
                   \/ /\ runs[i].pc \in StatusStates
                      /\ runs'[i] = [runs[i] EXCEPT !.tries = @ + 1]
             /\ runs'[i].builds <= 1
             /\ runs'[i].failedAt # "" =>
                   runs'[i].pc \in {Fallback, "Fail", "End"}
             /\ runs[i].failedAt = "" /\ runs'[i].failedAt # "" =>
                   /\ runs'[i].failedAt = runs[i].pc
                   /\ IF HasCatch(runs[i].pc) THEN runs'[i].pc = Fallback
                      ELSE runs'[i].pc = "End" /\ runs'[i].status = "FAILED"]_vars

C16_Witness ==
    \E r \in RunSet :
        /\ r.pc = "StoreGuardrail"
        /\ r.svc = MaxServiceRetries
        /\ r.failedAt = ""

\* C19: a run is in the Fail state only after it stored a FAILED write, has
\* ended in success only after it stored the SUCCEEDED write, and when it
\* has ended the last status it wrote is SUCCEEDED or FAILED, not RUNNING.
C19_TerminalStatusRecorded ==
    \A r \in RunSet :
        /\ r.pc = "Fail" \/ r.error = "Knowledge base sync failed" =>
              StatusSeq(r) # << >> /\ StatusSeq(r)[Len(r.writes)] = "FAILED"
        /\ r.status = "SUCCEEDED" =>
              StatusSeq(r) # << >> /\ StatusSeq(r)[Len(r.writes)] = "SUCCEEDED"
        /\ Ended(r) /\ StatusSeq(r) # << >> =>
              StatusSeq(r)[Len(r.writes)] \in {"SUCCEEDED", "FAILED"}

\* C17: a step of a run changes no record but the one of the run's own
\* key: every other record of the table is as it was, and no record of
\* another key appears.
C17_WritesOwnRecordOnly ==
    [][\A i \in 1..Len(runs) :
          i <= Len(runs') /\ runs'[i] # runs[i] =>
             \A k \in DOMAIN table' :
                 k # TriggerKey(runs[i]) =>
                     k \in DOMAIN table /\ table'[k] = table[k]]_vars

C17_Witness ==
    /\ Len(runs) = 2
    /\ TriggerKey(runs[1]) = FirstKey /\ TriggerKey(runs[2]) = SecondKey
    /\ runs[1].wseq = <<1, 4>> /\ runs[2].wseq = <<2, 3>>
    /\ table[FirstKey].SyncStatus = "SUCCEEDED"
    /\ table[SecondKey].SyncStatus = "FAILED"
    /\ "KnowledgeBaseId" \in DOMAIN table[FirstKey]
    /\ "KnowledgeBaseId" \notin DOMAIN table[SecondKey]

\* the status updates stored for key k: <<run, position in the run>>
StatusWritesTo(k) ==
    UNION {{<<i, j>> : j \in {n \in 1..Len(runs[i].writes) :
                                 runs[i].writes[n].key = k}} :
              i \in 1..Len(runs)}

\* the one among ws that was stored last
LastWrite(ws) ==
    CHOOSE w \in ws :
        \A v \in ws : runs[v[1]].wseq[v[2]] <= runs[w[1]].wseq[w[2]]

\* C18: the status fields of a record are those of the status update that
\* was stored last for it, whichever run made it and whatever the record
\* held: the last write wins, whether it is the other run's RUNNING over a
\* terminal status or the terminal status of the run that started first.
C18_LastWriteWins ==
    \A k \in DOMAIN table :
        StatusWritesTo(k) # {} =>
            LET w == LastWrite(StatusWritesTo(k))
                sets == runs[w[1]].writes[w[2]].sets
            IN  \A a \in DOMAIN sets : table[k][a] = sets[a]

\* both runs are for the same bot; the run that started first wrote its
\* terminal status last, after the other run had finished
C18_Witness ==
    /\ Len(runs) = 2
    /\ TriggerKey(runs[1]) = TriggerKey(runs[2])
    /\ Ended(runs[1]) /\ Ended(runs[2])
    /\ runs[1].wseq = <<1, 4>> /\ runs[2].wseq = <<2, 3>>
    /\ StatusSeq(runs[1]) = <<"RUNNING", "FAILED">>
    /\ StatusSeq(runs[2]) = <<"RUNNING", "SUCCEEDED">>
    /\ runs[2].status = "SUCCEEDED"
    /\ table[FirstKey].SyncStatus = "FAILED"

\* both runs are for the same bot; the first has ended in success and the
\* record shows the RUNNING the second wrote afterwards
C18_TerminalOverwritten ==
    /\ Len(runs) = 2
    /\ TriggerKey(runs[1]) = TriggerKey(runs[2])
    /\ runs[1].status = "SUCCEEDED"
    /\ runs[1].wseq = <<1, 2>> /\ runs[2].wseq = <<3>>
    /\ table[FirstKey].SyncStatus = "RUNNING"

PollStates == {"GetIngestionStatus", "CheckIngestionStatus", "WaitForIngestion"}

JobOf(r) == r.iter.IngestionJob.ingestionJob

\* the run is in the poll loop of its n-th job, not reported finished
Polling(r, n) ==
    /\ r.status = "RUNNING" /\ r.pc \in PollStates /\ r.idx = n
    /\ JobOf(r).status \notin {"COMPLETE", "FAILED"}

\* a status that is neither COMPLETE nor FAILED leads to the wait, the wait
\* to a poll of the same job, and an answered poll to the check
PollLoopSteps ==
    [][\A i \in 1..Len(runs) :
          LET r == runs[i]
              q == runs'[i]
          IN  /\ r.pc = "CheckIngestionStatus" /\ q # r
                  /\ JobOf(r).status \notin {"COMPLETE", "FAILED"}
                  => q.pc = "WaitForIngestion" /\ q.iter = r.iter /\ q.idx = r.idx
              /\ r.pc = "WaitForIngestion" /\ q # r
                  => /\ q.pc = "GetIngestionStatus" /\ q.idx = r.idx
                     /\ q.iter = r.iter
              /\ r.pc = "GetIngestionStatus" /\ q # r /\ q.status = "RUNNING"
                  => /\ q.pc = "CheckIngestionStatus" /\ q.idx = r.idx
                     /\ JobOf(q).ingestionJobId = JobOf(r).ingestionJobId]_vars

\* the poll loop of a job is left only on a status COMPLETE or FAILED
LoopLeftOnTerminalStatusOnly ==
    [][\A i \in 1..Len(runs) :
          LET r == runs[i]
              q == runs'[i]
          IN  r.status = "RUNNING" /\ r.pc \in PollStates
              /\ ~(q.status = "RUNNING" /\ q.pc \in PollStates /\ q.idx = r.idx)
              => /\ r.pc = "CheckIngestionStatus"
                 /\ JobOf(r).status \in {"COMPLETE", "FAILED"}]_vars

\* the poll loop of a job is left on a status COMPLETE or FAILED, or by a
\* poll that fails, which fails the execution
LoopLeftOnTerminalStatusOrFailedPoll ==
    [][\A i \in 1..Len(runs) :
          LET r == runs[i]
              q == runs'[i]
          IN  r.status = "RUNNING" /\ r.pc \in PollStates
              /\ ~(q.status = "RUNNING" /\ q.pc \in PollStates /\ q.idx = r.idx)
              => \/ /\ r.pc = "CheckIngestionStatus"
                    /\ JobOf(r).status \in {"COMPLETE", "FAILED"}
                 \/ /\ r.pc = "GetIngestionStatus"
                    /\ q.status = "FAILED"
                    /\ q.error = "BedrockAgent.BedrockAgentException"
                    /\ q.writes = r.writes]_vars

\* the execution ends, unless from some point on it polls one job that is
\* never reported COMPLETE or FAILED
EndsUnlessJobNeverFinishes ==
    \/ <>(Ended(runs[1]))
    \/ \E n \in 1..MaxDS : <>[]Polling(runs[1], n)

\* C20 as stated: a status other than COMPLETE or FAILED leads to a wait
\* and a poll of the same job; nothing but a status COMPLETE or FAILED takes
\* the run out of the loop; the run ends if its jobs finish.
C20_PollLoopAsStated ==
    /\ PollLoopSteps
    /\ LoopLeftOnTerminalStatusOnly
    /\ EndsUnlessJobNeverFinishes

\* C20 (amended): a status other than COMPLETE or FAILED leads to a wait
\* and a poll of the same job; the run leaves the loop of a job only on a
\* status COMPLETE or FAILED or when the poll itself fails, which fails the
\* execution without a status write (there is no timeout transition); and
\* the run ends unless one job is never reported COMPLETE or FAILED.
C20_PollLoop ==
    /\ PollLoopSteps
    /\ LoopLeftOnTerminalStatusOrFailedPoll
    /\ EndsUnlessJobNeverFinishes

\* the job was reported IN_PROGRESS, the run has waited and polls it again
C20_Witness ==
    /\ Len(runs) = 1
    /\ runs[1].pc = "GetIngestionStatus"
    /\ "WaitForIngestion" \in runs[1].visited
    /\ JobOf(runs[1]).status = "IN_PROGRESS"
    /\ JobOf(runs[1]).ingestionJobId = JobId(runs[1].iter.DataSourceId)

\* the positions of the data-source outputs, and the k-th of them
DataSourcePositions(o) == {i \in 1..Len(o) : StartsWith(o[i].OutputKey, "DataSource")}

KthPosition(ps, k) == CHOOSE i \in ps : Cardinality({j \in ps : j <= i}) = k

\* the value of the output named key, or the empty string
OutputOrEmpty(o, key) ==
    IF \E i \in 1..Len(o) : o[i].OutputKey = key
    THEN o[CHOOSE i \in 1..Len(o) : o[i].OutputKey = key].OutputValue
    ELSE EmptyId

\* C21: a successful fetch returns one entry per data-source output, in the
\* order of the describe call; each entry carries the stack's knowledge-base
\* id, the event's pk and sk, and the guardrail arn and version of the stack
\* or the empty string where the stack has no such output.
C21_OneEntryPerDataSource ==
    inv.fn = "fetch_stack_output" /\ inv.done /\ inv.result.ok =>
        LET o == inv.outputs
            ps == DataSourcePositions(o)
            v == inv.result.value
        IN  /\ Len(v) = Cardinality(ps)
            /\ \A k \in 1..Len(v) :
                  /\ v[k].DataSourceId = o[KthPosition(ps, k)].OutputValue
                  /\ v[k].KnowledgeBaseId = OutputOrEmpty(o, "KnowledgeBaseId")
                  /\ v[k].KnowledgeBaseId # EmptyId
                  /\ v[k].PK = inv.event.pk /\ v[k].SK = inv.event.sk
                  /\ v[k].GuardrailArn = OutputOrEmpty(o, "GuardrailArn")
                  /\ v[k].GuardrailVersion = OutputOrEmpty(o, "GuardrailVersion")
                  /\ DOMAIN v[k] = {"KnowledgeBaseId", "DataSourceId", "GuardrailArn",
                                    "GuardrailVersion", "PK", "SK"}

\* two data sources listed around the knowledge-base id, second one first,
\* and no guardrail output
C21_Witness ==
    /\ inv.fn = "fetch_stack_output" /\ inv.done /\ inv.result.ok
    /\ Len(inv.result.value) = 2
    /\ inv.outputs[1].OutputKey = "DataSource1"
    /\ inv.outputs[2].OutputKey = "KnowledgeBaseId"
    /\ inv.outputs[3].OutputKey = "DataSource0"
    /\ inv.result.value[1].DataSourceId # inv.result.value[2].DataSourceId
    /\ inv.result.value[1].GuardrailArn = EmptyId

\* C22: an invocation of the knowledge-base persistence handler that
\* succeeds leaves in the record the KnowledgeBaseId of the first entry of
\* stack_output and the DataSourceId of every entry, in list order, and no
\* other attribute changed; a second successful invocation with the same
\* event leaves the table as the first did; with an empty stack_output every
\* invocation raises ValueError and the table stays as it was.
C22_StoreKnowledgeBase ==
    inv.fn = "store_knowledge_base_id" =>
        LET so == inv.event.stack_output
            key == [PK |-> inv.event.pk, SK |-> inv.event.sk]
            okCalls == {j \in 1..Len(inv.calls) : inv.calls[j] = "ok"}
        IN  /\ so = << >> =>
                  /\ \A j \in 1..Len(inv.calls) : inv.calls[j] = "ValueError"
                  /\ table = inv.t0 /\ stream = << >>
            /\ so # << >> =>
                  \A j \in 1..Len(inv.calls) : inv.calls[j] \in {"ok", "ClientError"}
            /\ okCalls = {} => table = inv.t0
            /\ okCalls # {} =>
                  /\ DOMAIN table = DOMAIN inv.t0
                  /\ table[key].KnowledgeBaseId = so[1].KnowledgeBaseId
                  /\ table[key].DataSourceIds =
                         [i \in 1..Len(so) |-> so[i].DataSourceId]
                  /\ \A a \in DOMAIN inv.t0[key] \ {"KnowledgeBaseId", "DataSourceIds"} :
                         table[key][a] = inv.t0[key][a]
            /\ inv.calls = <<"ok", "ok">> => table = inv.snap

\* two invocations stored, for entries that differ in both ids, over ids an
\* earlier run had stored
C22_Witness ==
    /\ inv.fn = "store_knowledge_base_id"
    /\ inv.calls = <<"ok", "ok">>
    /\ Len(inv.event.stack_output) = 3
    /\ inv.event.stack_output[1].KnowledgeBaseId # inv.event.stack_output[3].KnowledgeBaseId
    /\ inv.event.stack_output[1].DataSourceId # inv.event.stack_output[2].DataSourceId
    /\ "KnowledgeBaseId" \in DOMAIN inv.t0[FirstKey]
    /\ table[FirstKey].KnowledgeBaseId # inv.t0[FirstKey].KnowledgeBaseId

\* the value of the build's environment variable name
EnvValue(r, name) ==
    r.buildEnv[CHOOSE j \in 1..Len(r.buildEnv) : r.buildEnv[j].Name = name].Value

\* C23: the PK, SK, KNOWLEDGE, BEDROCK_KNOWLEDGE_BASE and BEDROCK_GUARDRAILS
\* of a run's build are those of the NewImage of its trigger, whatever the
\* record holds by then; the change record in the state data stays the one
\* of the trigger, and every key a later step is given is the trigger's.
C23_BuildUsesTriggerSnapshot ==
    \A i \in 1..Len(runs) :
        LET r == runs[i]
            img == r.trigger.dynamodb.NewImage
        IN  /\ r.builds > 0 =>
                  /\ EnvValue(r, "PK") = img.PK.S
                  /\ EnvValue(r, "SK") = img.SK.S
                  /\ EnvValue(r, "KNOWLEDGE") = Json(img.Knowledge.M)
                  /\ EnvValue(r, "BEDROCK_KNOWLEDGE_BASE") = Json(img.BedrockKnowledgeBase.M)
                  /\ EnvValue(r, "BEDROCK_GUARDRAILS") = Json(img.GuardrailsParams.M)
            /\ r.builds = 0 => r.buildEnv = << >>
            /\ r.idx = 0 /\ r.pc # "ExtractFirstElement" /\ "dynamodb" \in DOMAIN r.data =>
                  r.data.dynamodb = r.trigger.dynamodb
            /\ r.idx = 0 /\ r.pc # "ExtractFirstElement"
                  /\ "StackOutput" \in DOMAIN r.data =>
                  \A j \in 1..Len(r.data.StackOutput.Payload) :
                      /\ r.data.StackOutput.Payload[j].PK = img.PK.S
                      /\ r.data.StackOutput.Payload[j].SK = img.SK.S
            /\ \A j \in 1..Len(r.writes) : r.writes[j].key = TriggerKey(r)

\* the record's knowledge configuration was rewritten after the trigger and
\* before the build, which ran with the trigger's
C23_Witness ==
    /\ Len(runs) = 1 /\ runs[1].builds = 1
    /\ runs[1].pc = "StoreKnowledgeBase"
    /\ nExt > 0
    /\ table[TriggerKey(runs[1])].Knowledge # runs[1].trigger.dynamodb.NewImage.Knowledge.M
    /\ EnvValue(runs[1], "KNOWLEDGE") = Json(runs[1].trigger.dynamodb.NewImage.Knowledge.M)

\* the run has stored the knowledge-base and data-source ids
PersistedIds(r) == "StoreGuardrail" \in r.visited

\* the Map has worked through all its items
FanOutDone(r) == "UpdateSyncStatusSuccess" \in r.visited

\* C24 as stated: once the ids are persisted and the run has ended, the
\* data sources for which ingestion jobs were started are exactly the
\* persisted ones, in the same order.
C24_StartedExactlyPersisted ==
    \A i \in 1..Len(runs) :
        PersistedIds(runs[i]) /\ Ended(runs[i]) =>
            runs[i].started = table[TriggerKey(runs[i])].DataSourceIds

\* C24 (amended): the ids persisted are those of the output set the fetcher
\* returned; the data sources for which ingestion jobs are started are the
\* first of the persisted ones, in the same order, and all of them once the
\* fan-out is through; every job is started and polled with the persisted
\* knowledge-base id.
C24_OneOutputSet ==
    \A i \in 1..Len(runs) :
        LET r == runs[i]
        IN  PersistedIds(r) =>
              LET item == table[TriggerKey(r)]
                  ids == item.DataSourceIds
              IN  /\ Len(r.started) <= Len(ids)
                  /\ r.started = SubSeq(ids, 1, Len(r.started))
                  /\ FanOutDone(r) => r.started = ids
                  /\ r.idx > 0 =>
                        /\ r.iter.KnowledgeBaseId = item.KnowledgeBaseId
                        /\ r.iter.DataSourceId = ids[r.idx]
                        /\ "IngestionJob" \in DOMAIN r.iter =>
                              /\ JobOf(r).knowledgeBaseId = item.KnowledgeBaseId
                              /\ JobOf(r).dataSourceId = ids[r.idx]
                  /\ "dynamodb" \in DOMAIN r.data /\ r.pc # "ExtractFirstElement" =>
                        /\ ids = [j \in 1..Len(r.data.StackOutput.Payload) |->
                                    r.data.StackOutput.Payload[j].DataSourceId]
                        /\ \A j \in 1..Len(r.data.StackOutput.Payload) :
                              r.data.StackOutput.Payload[j].KnowledgeBaseId =
                                  item.KnowledgeBaseId

\* two data sources persisted, a job started for each in that order, and
\* the fan-out through
C24_Witness ==
    /\ Len(runs) = 1
    /\ FanOutDone(runs[1])
    /\ Len(runs[1].started) = 2
    /\ runs[1].started[1] # runs[1].started[2]
    /\ runs[1].started = table[TriggerKey(runs[1])].DataSourceIds

\* C25: a run whose RUNNING update was refused by the store on all four
\* attempts has ended as failed with that error: it stored no status, took
\* no failure edge and started no build; while the run is still at the
\* update, fewer than four attempts have been made.
C25_RunningWriteFailureIsFatal ==
    \A i \in 1..Len(runs) :
        LET r == runs[i]
        IN  /\ r.status = "RUNNING" /\ r.pc = "UpdateSyncStatusRunning" => r.tries < 4
            /\ r.failedAt = "UpdateSyncStatusRunning" =>
                  /\ r.status = "FAILED" /\ r.pc = "End"
                  /\ r.error = "ClientError" => r.tries = 4
                  /\ r.builds = 0
                  /\ r.visited = {"ExtractFirstElement", "UpdateSyncStatusRunning"}
                  /\ r.writes = << >>

C25_Witness ==
    /\ Len(runs) = 1
    /\ runs[1].failedAt = "UpdateSyncStatusRunning"
    /\ runs[1].error = "ClientError" /\ runs[1].tries = 4
    /\ runs[1].status = "FAILED" /\ runs[1].builds = 0
    /\ table[TriggerKey(runs[1])].SyncStatus = "QUEUED"

\* the change records of writes made by runs: polled, and still in the stream
RunRecordStatuses ==
    {polled[j].status : j \in {n \in 1..Len(polled) : polled[n].by = "run"}}
    \cup {stream[j].dynamodb.NewImage.SyncStatus.S :
              j \in {n \in 1..Len(stream) : stream[n].by = "run"}}

\* C26: no change record of a write made by a run carries a SyncStatus
\* that begins with QUEUED, and the pipe starts no execution for such a
\* record.
C26_RunsNeverRetrigger ==
    /\ \A st \in RunRecordStatuses : ~StartsWith(st, FilterPrefix)
    /\ \A j \in 1..Len(polled) : polled[j].by = "run" => ~polled[j].started

\* C27: an event with a non-empty cause is handled as a build failure,
\* whatever else it carries: FAILED with the cause as reason, the build's
\* arn and the key of the build.  Without one, an event with a non-empty
\* ingestion_job is handled as an ingestion failure: FAILED with the job's
\* failure reasons and id, under the event's pk and sk.  Any other event is
\* a direct update: the event's sync_status, with sync_status_reason and
\* last_exec_id or the empty string where the event has none.
C27_OneShapePerEvent ==
    inv.fn = "update_bot_status" /\ inv.done =>
        LET d == inv.d
            res == inv.result
            k1 == [PK |-> FirstKey.PK, SK |-> FirstKey.SK]
            k2 == [PK |-> SecondKey.PK, SK |-> SecondKey.SK]
        IN  CASE d.c = "build" ->
                   /\ res.ok /\ res.key = k2
                   /\ res.sets = [SyncStatus |-> "FAILED",
                                  SyncStatusReason |-> inv.event.cause,
                                  LastExecId |-> BuildArn(1)]
              [] d.c = "text" -> ~res.ok /\ res.error = "JSONDecodeError"
              [] d.c \in {"none", "empty"} /\ d.j = "job" ->
                   IF d.k
                   THEN /\ res.ok /\ res.key = k1
                        /\ res.sets = [SyncStatus |-> "FAILED",
                                       SyncStatusReason |->
                                           [str |-> FailureReasons(DsId(1))],
                                       LastExecId |-> JobId(DsId(1))]
                   ELSE ~res.ok /\ res.error = "KeyError"
              [] d.c \in {"none", "empty"} /\ d.j = "camel" ->
                   ~res.ok /\ res.error = "KeyError"
              [] OTHER ->
                   IF d.k /\ d.st # "none"
                   THEN /\ res.ok /\ res.key = k1
                        /\ res.sets = [SyncStatus |-> d.st,
                                       SyncStatusReason |->
                                           IF d.rs THEN Raw("reason") ELSE EmptyStr,
                                       LastExecId |->
                                           IF d.ex THEN <<"exec", "1">> ELSE EmptyId]
                   ELSE ~res.ok /\ res.error = "KeyError"

\* an event that carries all three shapes at once, with sync_status
\* SUCCEEDED: it is handled as a build failure
C27_Witness ==
    /\ inv.fn = "update_bot_status" /\ inv.done
    /\ DOMAIN inv.event = {"cause", "ingestion_job", "pk", "sk", "sync_status",
                           "sync_status_reason", "last_exec_id"}
    /\ inv.event.sync_status = "SUCCEEDED"
    /\ "IngestionJob" \in DOMAIN inv.event.ingestion_job
    /\ inv.result.ok
    /\ inv.result.sets.SyncStatus = "FAILED"
    /\ inv.result.sets.LastExecId = BuildArn(1)

\* C28: after a request that went through, a key of the LambdaConfig that
\* is in neither the request's Triggers nor its old Triggers has the value
\* it had, and no such key appears; after Create and Update the keys of the
\* Triggers have the Triggers' values; after Update a key of the old
\* Triggers that is not among the new is gone; after Delete the keys of the
\* Triggers are gone, whatever the pool held before the Create; a request
\* that failed leaves the LambdaConfig as it was.
C28_OnlyManagedKeysChange ==
    inv.fn = "cognito_trigger" /\ inv.last.type # "none" =>
        LET l == inv.last
            c == inv.config
            managed == DOMAIN l.triggers \cup DOMAIN l.old
        IN  IF ~l.ok THEN c = l.before
            ELSE /\ \A k \in (DOMAIN c \cup DOMAIN l.before) \ managed :
                       k \in DOMAIN c /\ k \in DOMAIN l.before /\ c[k] = l.before[k]
                 /\ l.type \in {"Create", "Update"} =>
                       \A k \in DOMAIN l.triggers : k \in DOMAIN c /\ c[k] = l.triggers[k]
                 /\ l.type = "Update" =>
                       \A k \in DOMAIN l.old \ DOMAIN l.triggers : k \notin DOMAIN c
                 /\ l.type = "Delete" =>
                       \A k \in DOMAIN l.triggers : k \notin DOMAIN c

\* Create, then Delete with the same Triggers: the pool had a function of
\* its own on a key of the Triggers before, and has none on it now, while
\* its PreSignUp trigger is as it was
C28_Witness ==
    /\ inv.fn = "cognito_trigger"
    /\ inv.last.type = "Delete" /\ inv.last.ok /\ inv.last.prev = "Create"
    /\ "PostConfirmation" \in DOMAIN inv.last.triggers
    /\ "PostConfirmation" \in DOMAIN inv.origin
    /\ inv.origin["PostConfirmation"] = "fnC"
    /\ "PostConfirmation" \notin DOMAIN inv.config
    /\ "PreSignUp" \in DOMAIN inv.config
    /\ inv.config["PreSignUp"] = inv.origin["PreSignUp"]

\* the event is one for which the groups are joined
JoinsGroups(e) ==
    \/ e.triggerSource = "PostConfirmation_ConfirmSignUp"
    \/ /\ e.triggerSource = "PostAuthentication_Authentication"
       /\ "cognito:user_status" \in DOMAIN e.request.userAttributes
       /\ e.request.userAttributes["cognito:user_status"] = "FORCE_CHANGE_PASSWORD"

\* C29: admin_add_user_to_group is called only for a confirmed sign-up or
\* an authentication of a user in status FORCE_CHANGE_PASSWORD; the calls
\* are for the first of the configured groups, in list order; the user is
\* in the groups whose call succeeded; a call that fails is the last one
\* and the handler raises its error; a handler that returns returns the
\* event, after calls for all the groups where the groups are joined.
C29_GroupsJoinedInOrder ==
    inv.fn = "add_user_to_groups" =>
        LET n == Len(inv.called)
        IN  /\ ~JoinsGroups(inv.event) => inv.called = << >>
            /\ n <= Len(inv.groups) /\ inv.called = SubSeq(inv.groups, 1, n)
            /\ IF inv.pc = "raised" /\ inv.result = "ClientError"
               THEN n > 0 /\ inv.added = SubSeq(inv.groups, 1, n - 1)
               ELSE inv.added = inv.called
            /\ inv.pc = "returned" =>
                  /\ inv.result = inv.event
                  /\ JoinsGroups(inv.event) => inv.added = inv.groups
            /\ inv.pc = "raised" =>
                  \/ inv.result = "ClientError" /\ JoinsGroups(inv.event)
                  \/ /\ inv.result = "KeyError" /\ inv.called = << >>
                     /\ inv.event.triggerSource = "PostAuthentication_Authentication"

\* the second of three groups could not be joined: the user is in the
\* first, no call was made for the third, and the handler raised
C29_Witness ==
    /\ inv.fn = "add_user_to_groups"
    /\ inv.groups = <<"g1", "g2", "g3">>
    /\ inv.event.triggerSource = "PostAuthentication_Authentication"
    /\ inv.pc = "raised" /\ inv.result = "ClientError"
    /\ inv.called = <<"g1", "g2">>
    /\ inv.added = <<"g1">>

\* the email has exactly one "@" and what follows it is on the allowlist
EmailAllowed(ua, allowed) ==
    /\ "email" \in DOMAIN ua
    /\ \E p \in 1..Len(ua.email) :
          /\ ua.email[p] = "@"
          /\ \A q \in 1..Len(ua.email) : ua.email[q] = "@" => q = p
          /\ \E i \in 1..Len(allowed) :
                allowed[i] = SubSeq(ua.email, p + 1, Len(ua.email))

\* C30: the pre-signup handler returns the event, unchanged, exactly when
\* the email has one "@" and the part after it is on the allowlist; in
\* every other case it raises.
C30_OnlyAllowedDomainsPass ==
    inv.fn = "check_email_domain" /\ inv.done =>
        IF EmailAllowed(inv.event.request.userAttributes, inv.allowed)
        THEN inv.result.ok /\ inv.result.value = inv.event
        ELSE ~inv.result.ok /\ inv.result.error \in {"ValueError", "IndexError"}

\* an email with two "@" whose middle part is on the allowlist is refused
C30_Witness ==
    /\ inv.fn = "check_email_domain" /\ inv.done
    /\ inv.event.request.userAttributes = [name |-> "n", email |-> <<"u", "@", "x", "@">>]
    /\ inv.allowed = <<<<"x">>>>
    /\ ~inv.result.ok

====
